---- MODULE Spec2Model ----
(***************************************************************************)
(* A model of the file-exchanger protocol engine: the server's two         *)
(* runtimes (src/src/server.py), the client transfer engine                *)
(* (src/client.py) and the TCP byte streams between them.                  *)
(*                                                                         *)
(* A byte is a one-character string and a byte string is a sequence of     *)
(* bytes, so that every read boundary of a TCP stream can be modelled.     *)
(***************************************************************************)
EXTENDS Naturals, Sequences, FiniteSets, TLC

(***************************************************************************)
(* Program constants.                                                      *)
(***************************************************************************)
\* conn.recv(1024) in _handle_client
LINE_RECV == 1024
\* peer.recv(4096) / reader.read(4096) / f.read(4096)
CHUNK == 4096

(***************************************************************************)
(* Byte strings.                                                           *)
(***************************************************************************)
Min(a, b) == IF a <= b THEN a ELSE b

Least(S) == CHOOSE x \in S : \A y \in S : x <= y

Prefix(s, n) == SubSeq(s, 1, n)

Suffix(s, n) == SubSeq(s, n + 1, Len(s))

\* The index of the first occurrence of pat in s, 0 when there is none.
Find(s, pat) ==
    LET hits == { i \in 1..(Len(s) + 1) :
                    /\ i + Len(pat) - 1 <= Len(s)
                    /\ SubSeq(s, i, i + Len(pat) - 1) = pat }
    IN  IF hits = {} THEN 0 ELSE Least(hits)

\* Python: pat in s
Contains(s, pat) == Find(s, pat) # 0

\* Python: s.split(pat, 1)[0] and s.split(pat, 1)[1], for pat in s
Before(s, pat) == Prefix(s, Find(s, pat) - 1)

After(s, pat) == Suffix(s, Find(s, pat) + Len(pat) - 1)

StartsWith(s, pat) == Len(pat) <= Len(s) /\ Prefix(s, Len(pat)) = pat

NL == <<"\n">>

\* The upload and download sentinel b"<END>\n".
SENTINEL == <<"<", "E", "N", "D", ">", "\n">>

Whitespace == {" ", "\t", "\r", "\n"}

\* Python: str.upper(), on the letters the model's alphabet holds.
UpperMap ==
    [ch \in {"l", "o", "a", "d", "g", "e", "t", "f", "i", "s"} |->
        CASE ch = "l" -> "L" [] ch = "o" -> "O" [] ch = "a" -> "A"
          [] ch = "d" -> "D" [] ch = "g" -> "G" [] ch = "e" -> "E"
          [] ch = "t" -> "T" [] ch = "f" -> "F" [] ch = "i" -> "I"
          [] ch = "s" -> "S"]

\* A variant of UpperChar that leaves every character as it is.
UpperCharKeeps(ch) == ch

UpperChar(ch) == IF ch \in DOMAIN UpperMap THEN UpperMap[ch] ELSE ch

Upper(s) == [i \in 1..Len(s) |-> UpperChar(s[i])]

\* Python: str.split() -- the maximal runs of non-whitespace characters.
RECURSIVE SplitFrom(_, _)
SplitFrom(s, i) ==
    IF i > Len(s) THEN <<>>
    ELSE IF s[i] \in Whitespace THEN SplitFrom(s, i + 1)
    ELSE LET ends == { j \in i..Len(s) : s[j] \in Whitespace }
             n    == IF ends = {} THEN Len(s) ELSE Least(ends) - 1
         IN  <<SubSeq(s, i, n)>> \o SplitFrom(s, n + 1)

Split(s) == SplitFrom(s, 1)

\* Python: str.strip()
RECURSIVE LStrip(_)
LStrip(s) == IF s # <<>> /\ s[1] \in Whitespace THEN LStrip(Tail(s)) ELSE s

RECURSIVE RStrip(_)
RStrip(s) ==
    IF s # <<>> /\ s[Len(s)] \in Whitespace
    THEN RStrip(Prefix(s, Len(s) - 1)) ELSE s

Strip(s) == LStrip(RStrip(s))

\* Python: str(n) for n >= 0, in decimal.
Digit(d) ==
    CASE d = 0 -> "0" [] d = 1 -> "1" [] d = 2 -> "2" [] d = 3 -> "3"
      [] d = 4 -> "4" [] d = 5 -> "5" [] d = 6 -> "6" [] d = 7 -> "7"
      [] d = 8 -> "8" [] d = 9 -> "9"

RECURSIVE Str(_)
Str(n) == IF n < 10 THEN <<Digit(n)>> ELSE Str(n \div 10) \o <<Digit(n % 10)>>

\* Python: "\n".join(names)
RECURSIVE Join(_)
Join(names) ==
    IF names = <<>> THEN <<>>
    ELSE IF Len(names) = 1 THEN names[1]
    ELSE names[1] \o NL \o Join(Tail(names))

(***************************************************************************)
(* The protocol's texts.                                                   *)
(***************************************************************************)
T_LOAD == <<"L", "O", "A", "D">>

T_GET == <<"G", "E", "T">>

T_FILE == <<"F", "I", "L", "E">>

T_FILES == <<"F", "I", "L", "E", "S">>

T_ALL == <<"A", "L", "L">>

T_READY == <<"R", "E", "A", "D", "Y">>

T_ERROR == <<"E", "R", "R", "O", "R">>

SP == <<" ">>

\* b"READY\n"
MSG_READY == T_READY \o NL

\* b"ERROR Unknown command\n"
MSG_UNKNOWN_COMMAND ==
    T_ERROR \o <<" ", "U", "n", "k", "n", "o", "w", "n", " ",
                 "c", "o", "m", "m", "a", "n", "d", "\n">>

\* b"ERROR Unknown GET subcommand\n"
MSG_UNKNOWN_SUB ==
    T_ERROR \o <<" ", "U", "n", "k", "n", "o", "w", "n", " ", "G", "E", "T", " ",
                 "s", "u", "b", "c", "o", "m", "m", "a", "n", "d", "\n">>

\* f"ERROR FileNotFound {e}\n"
MSG_FILE_NOT_FOUND(e) ==
    T_ERROR \o <<" ", "F", "i", "l", "e", "N", "o", "t", "F", "o", "u", "n", "d",
                 " ">> \o e \o NL

\* f"ERROR ErrorDuringUpload {e}\n"
MSG_UPLOAD(e) ==
    T_ERROR \o <<" ", "E", "r", "r", "o", "r", "D", "u", "r", "i", "n", "g",
                 "U", "p", "l", "o", "a", "d", " ">> \o e \o NL

\* f"ERROR {e}\n"
MSG_EXCEPTION(e) == T_ERROR \o SP \o e \o NL

\* str(PeerDisconnected("Connection lost during upload"))
E_LOST ==
    <<"C", "o", "n", "n", "e", "c", "t", "i", "o", "n", " ", "l", "o", "s", "t",
      " ", "d", "u", "r", "i", "n", "g", " ", "u", "p", "l", "o", "a", "d">>

\* str(IsADirectoryError) of open(path, "wb") on a directory; the path that
\* follows in Python's message is left out.
E_ISDIR ==
    <<"[", "E", "r", "r", "n", "o", " ", "2", "1", "]", " ", "I", "s", " ", "a",
      " ", "d", "i", "r", "e", "c", "t", "o", "r", "y">>

\* str(IndexError) of parts[1] on a one-element list
E_INDEX ==
    <<"l", "i", "s", "t", " ", "i", "n", "d", "e", "x", " ", "o", "u", "t", " ",
      "o", "f", " ", "r", "a", "n", "g", "e">>

\* f"READY {size}\n"
MSG_READY_SIZE(size) == T_READY \o SP \o Str(size) \o NL

(***************************************************************************)
(* The listing handler's pattern (re.compile, regex.match).                *)
(***************************************************************************)
\* Python: pattern.replace("*", ".*")
RECURSIVE ReplaceStar(_)
ReplaceStar(p) ==
    IF p = <<>> THEN <<>>
    ELSE (IF p[1] = "*" THEN <<".", "*">> ELSE <<p[1]>>) \o ReplaceStar(Tail(p))

\* One regular-expression atom against one character: "." is any character
\* but a newline, every other atom of the model's alphabet is a literal.
AtomMatch(a, ch) == IF a = "." THEN ch # "\n" ELSE a = ch

\* Python: re.compile(re).match(s) -- a match of a prefix of s, for the
\* expressions the model builds: literals, ".", a "*" after an atom, a "^" at
\* the start and a "$" at the end.
RECURSIVE ReMatchHere(_, _)
ReMatchHere(re, s) ==
    IF re = <<>> THEN TRUE
    ELSE IF re = <<"$">> THEN s = <<>> \/ s = NL
    ELSE IF Len(re) >= 2 /\ re[2] = "*"
    THEN \E k \in 0..Len(s) :
            /\ \A i \in 1..k : AtomMatch(re[1], s[i])
            /\ ReMatchHere(Suffix(re, 2), Suffix(s, k))
    ELSE /\ s # <<>>
         /\ AtomMatch(re[1], s[1])
         /\ ReMatchHere(Tail(re), Tail(s))

ReMatch(re, s) ==
    IF re # <<>> /\ re[1] = "^" THEN ReMatchHere(Tail(re), s)
    ELSE ReMatchHere(re, s)

\* A variant of ListingRegex that reads ALL as a glob like any other pattern;
\* C9 must fail under it.
ListingRegexNoAll(pattern) == <<"^">> \o ReplaceStar(pattern) \o <<"$">>

\* The regex of _cmd_get_files / _cmd_get_files_async.
ListingRegex(pattern) ==
    IF Upper(pattern) = T_ALL THEN <<".", "*">>
    ELSE <<"^">> \o ReplaceStar(pattern) \o <<"$">>

\* The sequences that hold each element of the set S once: the orders in
\* which os.listdir may return the entries.
Orders(S) ==
    { o \in [1..Cardinality(S) -> S] : \A x \in S : \E i \in DOMAIN o : o[i] = x }

\* [f for f in listing if regex.match(f)], listing one order of the entries
SelectMatches(listing, re) == SelectSeq(listing, LAMBDA f : ReMatch(re, f))

\* The bytes _cmd_get_files sends for `pattern` when os.listdir returns
\* `listing`.
ListingResponse(listing, pattern) ==
    Join(SelectMatches(listing, ListingRegex(pattern))) \o NL

(***************************************************************************)
(* The command dispatcher.  The outcome of a line is a record: what the    *)
(* dispatcher does with it (op) and the argument it passes on (arg).       *)
(***************************************************************************)
Outcome(op, arg) == [op |-> op, arg |-> arg]

\* _dispatch_command, to the call of a handler: "reply" sends arg.
_dispatch_parts(parts) ==
    LET cmd   == Upper(parts[1])
    IN  IF parts = <<>> THEN Outcome("return", <<>>)
        ELSE IF cmd = T_LOAD
        THEN IF Len(parts) < 2
             THEN Outcome("reply", MSG_EXCEPTION(E_INDEX))
             ELSE Outcome("load", parts[2])
        ELSE IF cmd = T_GET /\ Len(parts) >= 3
        THEN LET sub == Upper(parts[2])
             IN  IF sub = T_FILE THEN Outcome("get_file", parts[3])
                 ELSE IF sub = T_FILES THEN Outcome("get_files", parts[3])
                 ELSE Outcome("reply", MSG_UNKNOWN_SUB)
        ELSE Outcome("reply", MSG_UNKNOWN_COMMAND)

\* parts = line.split(), then the branches.
_dispatch_command(line) ==
    CHOOSE r \in { _dispatch_parts(parts) : parts \in {Split(line)} } : TRUE

\* _dispatch_command_async, to the call of a handler: "raise" is an exception
\* that leaves the dispatcher.
_dispatch_parts_async(parts) ==
    LET cmd   == IF parts # <<>> THEN Upper(parts[1]) ELSE <<>>
    IN  IF cmd = T_LOAD
        THEN IF Len(parts) < 2
             THEN Outcome("raise", E_INDEX)
             ELSE Outcome("load", parts[2])
        ELSE IF cmd = T_GET /\ Len(parts) >= 3
        THEN LET sub == Upper(parts[2])
             IN  IF sub = T_FILE THEN Outcome("get_file", parts[3])
                 ELSE IF sub = T_FILES THEN Outcome("get_files", parts[3])
                 ELSE Outcome("return", <<>>)
        ELSE Outcome("reply", MSG_UNKNOWN_COMMAND)

\* parts = line.split(), then the branches.
_dispatch_command_async(line) ==
    CHOOSE r \in { _dispatch_parts_async(parts) : parts \in {Split(line)} } :
        TRUE

(***************************************************************************)
(* State.                                                                  *)
(***************************************************************************)
\* The connections the server may accept.
Conns == {1, 2}

VARIABLES
    mode,        \* FileServer.mode: "threaded" or "async"
    files,       \* the storage directory's files: name -> content on disk
    dirs,        \* the storage directory's subdirectories (names)
    pc,          \* per connection: where its worker or task stands
    buffer,      \* per connection: _handle_client's buffer (threaded), the
                 \* StreamReader's buffer (async)
    c2s,         \* per connection: bytes sent by the peer, not yet received
    peerClosed,  \* per connection: the peer has closed its socket
    sent,        \* per connection: every byte the server has sent, in order
    fname,       \* per connection: the filename of the running LOAD / GET FILE
    fbuf,        \* per connection: bytes written to the open file object and
                 \* not yet flushed to disk
    fpos,        \* per connection: read offset of the running GET FILE
    script,      \* per connection: the bytes a raw peer sends in all
    peerPos,     \* per connection: how many bytes of its script are sent
    upload,      \* history, per connection: its last upload's filename, the
                 \* bytes its handler received and how it stands
    disp         \* history: the lines dispatched, each with the length of
                 \* `sent` at its dispatch

VARIABLES
    cprog,       \* the client program: a sequence of FileClient calls
    cip,         \* index of the call that runs (Len(cprog) + 1: all done)
    cpc,         \* where the running call stands
    csock,       \* FileClient.client_socket: its connection and its state
    clocal,      \* the client's local files: name -> content
    coutDir,     \* download's output_dir exists
    cout,        \* the files of output_dir: name -> content
    ctotal,      \* download: total_size
    creceived,   \* download: received
    creported,   \* download: the lengths passed to progress_cb, in order
    coff,        \* upload: read offset in the file that is sent
    crd,         \* per connection: how many bytes of `sent` the client read
    cdone        \* history: the result of each call that has ended

\* The server's and the raw peers' variables.
svars == <<mode, files, dirs, pc, buffer, c2s, peerClosed, sent, fname, fbuf,
           fpos, script, peerPos, upload, disp>>

\* The client's variables.
cvars == <<cprog, cip, cpc, csock, clocal, coutDir, cout, ctotal, creceived,
           creported, coff, crd, cdone>>

vars == <<svars, cvars>>

\* os.path.isfile(path)
IsFile(name) == name \in DOMAIN files

\* os.listdir(self.storage_dir), as a set: the immediate entries.  A key of
\* `files` is a path relative to the storage directory; one with a separator
\* names a file inside a subdirectory.
ListDir == { n \in DOMAIN files : ~Contains(n, <<"/">>) } \cup dirs

\* A variant of Truncate that leaves the new file alone in the directory.
TruncateAlone(fs, name) == [n \in {name} |-> <<>>]

\* open(path, "wb") of an entry that is no directory: the file is created or
\* truncated at once.
Truncate(fs, name) ==
    [n \in DOMAIN fs \cup {name} |-> IF n = name THEN <<>> ELSE fs[n]]

\* The file object's close: its buffered bytes are written at its own offset,
\* which is 0 as nothing was flushed before (the writes of one upload stay
\* below io.DEFAULT_BUFFER_SIZE in this model).  Bytes of the file beyond the
\* written ones stay (another connection's writer may have put them there).
Flush(fs, name, data) ==
    [n \in DOMAIN fs \cup {name} |->
        IF n = name
        THEN data \o (IF n \in DOMAIN fs THEN Suffix(fs[n], Len(data)) ELSE <<>>)
        ELSE fs[n]]

\* sendall / write+drain on a socket whose peer has closed may still succeed
\* or may raise (BrokenPipeError, ConnectionResetError).
SendOutcomes(c) == IF peerClosed[c] THEN {TRUE, FALSE} ELSE {TRUE}

\* A send of `bytes` that is followed, when it succeeds, by position `next`.
\* A send that raises ends the connection: in the threaded runtime the
\* dispatcher's handler sends again, on the broken socket, and that raises
\* out of _dispatch_command; in the async runtime nothing catches it. Both
\* loops end in their finally clause, which closes the connection.
Send(c, bytes, next) ==
    \E ok \in SendOutcomes(c) :
        IF ok
        THEN /\ sent' = [sent EXCEPT ![c] = @ \o bytes]
             /\ pc' = [pc EXCEPT ![c] = next]
        ELSE /\ sent' = sent
             /\ pc' = [pc EXCEPT ![c] = "closed"]

\* A handler's exception e that reaches the dispatch boundary as
\* ErrorDuringUpload(e): _dispatch_command sends an error frame and returns,
\* _dispatch_command_async lets it through to _handle_client_async.
RaiseUploadError(c, e) ==
    IF mode = "threaded"
    THEN Send(c, MSG_UPLOAD(e), "loop")
    ELSE /\ pc' = [pc EXCEPT ![c] = "closed"]
         /\ sent' = sent

(***************************************************************************)
(* The server: dispatch of one line.                                       *)
(***************************************************************************)
\* The history of an upload: a LOAD of `name` has been dispatched.
Uploading(name) == [name |-> name, recv |-> <<>>, state |-> "running"]

NoUpload == [name |-> <<>>, recv |-> <<>>, state |-> "none"]

\* What the dispatcher does for outcome r on connection c, up to the first
\* point where the handler waits for the network or the disk again:
\* _cmd_load / _cmd_load_async to the send of READY, _cmd_get_file /
\* _cmd_get_file_async to the send of the READY <size> line (after isfile and
\* getsize), _cmd_get_files / _cmd_get_files_async as a whole.
Perform(c, r) ==
    CASE r.op = "return" ->
            /\ UNCHANGED <<pc, sent, fname, fpos, upload>>
      [] r.op = "raise" ->
            /\ pc' = [pc EXCEPT ![c] = "closed"]
            /\ UNCHANGED <<sent, fname, fpos, upload>>
      [] r.op = "reply" ->
            /\ Send(c, r.arg, "loop")
            /\ UNCHANGED <<fname, fpos, upload>>
      [] r.op = "load" ->
            /\ Send(c, MSG_READY, "load_open")
            /\ fname' = [fname EXCEPT ![c] = r.arg]
            /\ upload' = [upload EXCEPT ![c] = Uploading(r.arg)]
            /\ UNCHANGED fpos
      [] r.op = "get_file" ->
            IF ~IsFile(r.arg)
            THEN /\ Send(c, MSG_FILE_NOT_FOUND(r.arg), "loop")
                 /\ UNCHANGED <<fname, fpos, upload>>
            ELSE /\ Send(c, MSG_READY_SIZE(Len(files[r.arg])), "get_read")
                 /\ fname' = [fname EXCEPT ![c] = r.arg]
                 /\ fpos' = [fpos EXCEPT ![c] = 0]
                 /\ UNCHANGED upload
      [] r.op = "get_files" ->
            /\ \E listing \in Orders(ListDir) :
                  Send(c, ListingResponse(listing, r.arg), "loop")
            /\ UNCHANGED <<fname, fpos, upload>>

\* The history of dispatched lines.
Dispatched(c, line) ==
    disp' = [disp EXCEPT ![c] = Append(@, [line |-> line, at |-> Len(sent[c])])]

(***************************************************************************)
(* The threaded runtime's connection loop.                                 *)
(***************************************************************************)
\* _handle_client: data = conn.recv(1024), reached when the buffer holds no
\* complete line.  The read returns any non-empty prefix of the bytes in
\* flight, or nothing when the peer has closed and all was read.
HandleClientRecv(c) ==
    /\ mode = "threaded"
    /\ pc[c] = "loop"
    /\ ~Contains(buffer[c], NL)
    /\ \/ /\ c2s[c] # <<>>
          /\ \E k \in 1..Min(Len(c2s[c]), LINE_RECV) :
                /\ buffer' = [buffer EXCEPT ![c] = @ \o Prefix(c2s[c], k)]
                /\ c2s' = [c2s EXCEPT ![c] = Suffix(@, k)]
          /\ UNCHANGED pc
       \/ /\ c2s[c] = <<>>
          /\ peerClosed[c]
          /\ pc' = [pc EXCEPT ![c] = "closed"]
          /\ UNCHANGED <<buffer, c2s>>
    /\ UNCHANGED <<mode, files, dirs, peerClosed, sent, fname, fbuf, fpos,
                   script, peerPos, upload, disp>>
    /\ UNCHANGED cvars

\* _handle_client: one turn of `while b"\n" in buffer`, with the call of
\* _dispatch_command.
HandleClientDispatch(c) ==
    /\ mode = "threaded"
    /\ pc[c] = "loop"
    /\ Contains(buffer[c], NL)
    /\ \E line \in {Strip(Before(buffer[c], NL))} :
       \E r \in {_dispatch_command(line)} :
           /\ buffer' = [buffer EXCEPT ![c] = After(@, NL)]
           /\ Dispatched(c, line)
           /\ Perform(c, r)
    /\ UNCHANGED <<mode, files, dirs, c2s, peerClosed, fbuf, script, peerPos>>
    /\ UNCHANGED cvars

(***************************************************************************)
(* The async runtime's connection loop.                                    *)
(***************************************************************************)
\* The event loop hands the bytes that arrived to the connection's
\* StreamReader (any non-empty prefix of the bytes in flight).
StreamReaderFeed(c) ==
    /\ mode = "async"
    /\ pc[c] \notin {"none", "closed"}
    /\ c2s[c] # <<>>
    /\ \E k \in 1..Len(c2s[c]) :
          /\ buffer' = [buffer EXCEPT ![c] = @ \o Prefix(c2s[c], k)]
          /\ c2s' = [c2s EXCEPT ![c] = Suffix(@, k)]
    /\ UNCHANGED <<mode, files, dirs, pc, peerClosed, sent, fname, fbuf, fpos,
                   script, peerPos, upload, disp>>
    /\ UNCHANGED cvars

\* The StreamReader has been fed the end of the stream.
AtEof(c) == c2s[c] = <<>> /\ peerClosed[c]

\* _handle_client_async: one turn of `while not reader.at_eof()`:
\* reader.readline() returns the first line with its newline, or at the end
\* of the stream what is left; an empty result ends the loop, any other is
\* stripped and dispatched.
HandleClientAsyncDispatch(c) ==
    /\ mode = "async"
    /\ pc[c] = "loop"
    /\ \/ /\ Contains(buffer[c], NL)
          /\ \E line \in {Strip(Before(buffer[c], NL) \o NL)} :
             \E r \in {_dispatch_command_async(line)} :
                 /\ buffer' = [buffer EXCEPT ![c] = After(@, NL)]
                 /\ Dispatched(c, line)
                 /\ Perform(c, r)
       \/ /\ ~Contains(buffer[c], NL)
          /\ AtEof(c)
          /\ buffer[c] # <<>>
          /\ \E line \in {Strip(buffer[c])} :
             \E r \in {_dispatch_command_async(line)} :
                 /\ buffer' = [buffer EXCEPT ![c] = <<>>]
                 /\ Dispatched(c, line)
                 /\ Perform(c, r)
       \/ /\ AtEof(c)
          /\ buffer[c] = <<>>
          /\ pc' = [pc EXCEPT ![c] = "closed"]
          /\ UNCHANGED <<buffer, disp, sent, fname, fpos, upload>>
    /\ UNCHANGED <<mode, files, dirs, c2s, peerClosed, fbuf, script, peerPos>>
    /\ UNCHANGED cvars

(***************************************************************************)
(* The upload handler.                                                     *)
(***************************************************************************)
\* _cmd_load / _cmd_load_async after READY was sent: open(file_path, "wb").
\* On a directory the open raises, which the handler turns into
\* ErrorDuringUpload.
CmdLoadOpen(c) ==
    /\ pc[c] = "load_open"
    /\ IF fname[c] \in dirs
       THEN /\ RaiseUploadError(c, E_ISDIR)
            /\ upload' = [upload EXCEPT ![c].state = "failed"]
            /\ UNCHANGED <<files, fbuf>>
       ELSE /\ files' = Truncate(files, fname[c])
            /\ fbuf' = [fbuf EXCEPT ![c] = <<>>]
            /\ pc' = [pc EXCEPT ![c] = "load_recv"]
            /\ UNCHANGED <<sent, upload>>
    /\ UNCHANGED <<mode, dirs, buffer, c2s, peerClosed, fname, fpos, script,
                   peerPos, disp>>
    /\ UNCHANGED cvars

\* One turn of the handler's read loop on a non-empty chunk.  In
\* _cmd_load the local buffer is empty at each read (it is reset after each
\* write), so that buffer + chunk is the chunk; _cmd_load_async looks at the
\* chunk itself.  With the sentinel in it, the bytes before it are written
\* and the file is closed; otherwise the chunk is written.
LoadChunk(c, chunk) ==
    /\ upload' = [upload EXCEPT
                      ![c].recv = @ \o chunk,
                      ![c].state = IF Contains(chunk, SENTINEL)
                                   THEN "complete" ELSE @]
    /\ IF Contains(chunk, SENTINEL)
       THEN /\ files' = Flush(files, fname[c], fbuf[c] \o Before(chunk, SENTINEL))
            /\ fbuf' = [fbuf EXCEPT ![c] = <<>>]
            /\ pc' = [pc EXCEPT ![c] = "loop"]
       ELSE /\ fbuf' = [fbuf EXCEPT ![c] = @ \o chunk]
            /\ UNCHANGED <<files, pc>>
    /\ sent' = sent

\* A variant of LoadEof that takes the empty read for a chunk and reads on;
\* C12 and C14 must fail under it.
LoadEofReadsOn(c) == UNCHANGED <<files, fbuf, pc, sent, upload>>

\* The read returned nothing: PeerDisconnected is raised inside `with`, the
\* file is closed (what was written stays), ErrorDuringUpload is raised.
LoadEof(c) ==
    /\ files' = Flush(files, fname[c], fbuf[c])
    /\ fbuf' = [fbuf EXCEPT ![c] = <<>>]
    /\ RaiseUploadError(c, E_LOST)
    /\ upload' = [upload EXCEPT ![c].state = "failed"]

\* _cmd_load: chunk = peer.recv(4096) and the rest of the loop's turn.
CmdLoadRecv(c) ==
    /\ mode = "threaded"
    /\ pc[c] = "load_recv"
    /\ \/ /\ c2s[c] # <<>>
          /\ \E k \in 1..Min(Len(c2s[c]), CHUNK) :
                /\ LoadChunk(c, Prefix(c2s[c], k))
                /\ c2s' = [c2s EXCEPT ![c] = Suffix(@, k)]
       \/ /\ c2s[c] = <<>>
          /\ peerClosed[c]
          /\ LoadEof(c)
          /\ UNCHANGED c2s
    /\ UNCHANGED <<mode, dirs, buffer, peerClosed, fname, fpos, script,
                   peerPos, disp>>
    /\ UNCHANGED cvars

\* _cmd_load_async: chunk = await reader.read(4096) and the rest of the
\* loop's turn.  The read returns what the StreamReader holds, up to 4096
\* bytes, and waits while it holds nothing and the stream has not ended.
CmdLoadAsyncRead(c) ==
    /\ mode = "async"
    /\ pc[c] = "load_recv"
    /\ \/ /\ buffer[c] # <<>>
          /\ LET k == Min(Len(buffer[c]), CHUNK)
             IN  /\ LoadChunk(c, Prefix(buffer[c], k))
                 /\ buffer' = [buffer EXCEPT ![c] = Suffix(@, k)]
       \/ /\ buffer[c] = <<>>
          /\ AtEof(c)
          /\ LoadEof(c)
          /\ UNCHANGED buffer
    /\ UNCHANGED <<mode, dirs, c2s, peerClosed, fname, fpos, script,
                   peerPos, disp>>
    /\ UNCHANGED cvars

(***************************************************************************)
(* The download handler.                                                   *)
(***************************************************************************)
\* _cmd_get_file / _cmd_get_file_async after the READY line: one turn of
\* the loop, chunk = f.read(4096) of the file as it is on disk now, sent when
\* it is not empty; the sentinel is sent when it is.
CmdGetFileRead(c) ==
    /\ pc[c] = "get_read"
    /\ LET data  == files[fname[c]]
           chunk == SubSeq(data, fpos[c] + 1, Min(Len(data), fpos[c] + CHUNK))
       IN  IF chunk = <<>>
           THEN /\ Send(c, SENTINEL, "loop")
                /\ UNCHANGED fpos
           ELSE /\ Send(c, chunk, "get_read")
                /\ fpos' = [fpos EXCEPT ![c] = @ + Len(chunk)]
    /\ UNCHANGED <<mode, files, dirs, buffer, c2s, peerClosed, fname, fbuf,
                   script, peerPos, upload, disp>>
    /\ UNCHANGED cvars

(***************************************************************************)
(* A raw peer: it sends its script without waiting for any response and    *)
(* may then close its socket.                                              *)
(***************************************************************************)
PeerSend(c) ==
    /\ pc[c] # "none"
    /\ peerPos[c] < Len(script[c])
    /\ ~peerClosed[c]
    /\ c2s' = [c2s EXCEPT ![c] = @ \o Suffix(script[c], peerPos[c])]
    /\ peerPos' = [peerPos EXCEPT ![c] = Len(script[c])]
    /\ UNCHANGED <<mode, files, dirs, pc, buffer, peerClosed, sent, fname,
                   fbuf, fpos, script, upload, disp>>
    /\ UNCHANGED cvars

PeerClose(c) ==
    /\ pc[c] # "none"
    /\ peerPos[c] = Len(script[c])
    /\ ~peerClosed[c]
    /\ peerClosed' = [peerClosed EXCEPT ![c] = TRUE]
    /\ UNCHANGED <<mode, files, dirs, pc, buffer, c2s, sent, fname, fbuf,
                   fpos, script, peerPos, upload, disp>>
    /\ UNCHANGED cvars

(***************************************************************************)
(* The client transfer engine (FileClient).                                *)
(***************************************************************************)
\* Python: int(s), for a string of decimal digits; -1 stands for ValueError.
DigitValue(ch) ==
    CASE ch = "0" -> 0 [] ch = "1" -> 1 [] ch = "2" -> 2 [] ch = "3" -> 3
      [] ch = "4" -> 4 [] ch = "5" -> 5 [] ch = "6" -> 6 [] ch = "7" -> 7
      [] ch = "8" -> 8 [] ch = "9" -> 9

IsDigits(s) ==
    /\ s # <<>>
    /\ \A i \in 1..Len(s) :
          s[i] \in {"0", "1", "2", "3", "4", "5", "6", "7", "8", "9"}

RECURSIVE IntOf(_)
IntOf(s) ==
    IF Len(s) = 1 THEN DigitValue(s[1])
    ELSE 10 * IntOf(Prefix(s, Len(s) - 1)) + DigitValue(s[Len(s)])

\* The calls of a client program.
Call(op, name) == [op |-> op, name |-> name]

NoSocket == [id |-> 0, state |-> "none"]

\* The call that runs.
Running(op) ==
    /\ cip <= Len(cprog)
    /\ cprog[cip].op = op

\* The running call returns (result "ok": it did its work; "skipped": it
\* returned early after logging an error) and the program goes on.
Return(result) ==
    /\ cdone' = Append(cdone, [op |-> cprog[cip].op, result |-> result])
    /\ cip' = cip + 1
    /\ cpc' = "start"

\* A variant of Raise under which a failing call logs and returns; C15 must
\* fail under it.
ReturnsInstead(kind) == Return("skipped")

\* The running call raises the exception `kind`: the program ends there,
\* except that an upload inside share_directory's try block is followed by the
\* finally clause, which is the next call of the program.
Raise(kind) ==
    /\ cdone' = Append(cdone, [op |-> cprog[cip].op, result |-> kind])
    /\ cip' = IF cprog[cip].op = "share_upload" THEN cip + 1
              ELSE Len(cprog) + 1
    /\ cpc' = "start"

\* self.client_socket.sendall: on a socket that is not connected (connect
\* failed) or that disconnect closed it raises; when the server has closed
\* the connection it may still succeed or raise.
ClientSendOutcomes ==
    IF csock.state # "open" THEN {FALSE}
    ELSE IF pc[csock.id] = "closed" THEN {TRUE, FALSE}
    ELSE {TRUE}

\* The bytes the server has sent to the client's socket and the client has
\* not read.
ClientAvail == Suffix(sent[csock.id], crd[csock.id])

\* FileClient.connect: a new socket replaces client_socket (the old one, if
\* still open, is closed when it is collected); the connection is accepted
\* and handed to a worker or task, or it is refused, which connect() only
\* logs.
ClientConnect ==
    /\ Running("connect")
    /\ \E c \in Conns :
          /\ pc[c] = "none"
          /\ \A d \in Conns : pc[d] = "none" => c <= d
          /\ \E accepted \in BOOLEAN :
                IF accepted
                THEN /\ csock' = [id |-> c, state |-> "open"]
                     /\ pc' = [pc EXCEPT ![c] = "loop"]
                ELSE /\ csock' = [id |-> 0, state |-> "unconnected"]
                     /\ pc' = pc
    /\ peerClosed' = [c \in Conns |->
                        peerClosed[c] \/ (csock.state = "open" /\ csock.id = c)]
    /\ Return("ok")
    /\ UNCHANGED <<mode, files, dirs, buffer, c2s, sent, fname, fbuf, fpos,
                   script, peerPos, upload, disp>>
    /\ UNCHANGED <<cprog, clocal, coutDir, cout, ctotal,
                   creceived, creported, coff, crd>>

\* FileClient.disconnect: closes client_socket when there is one.
ClientDisconnect ==
    /\ Running("disconnect")
    /\ IF csock.state = "none"
       THEN UNCHANGED <<csock, peerClosed>>
       ELSE /\ csock' = [csock EXCEPT !.state = "closed"]
            /\ peerClosed' = [c \in Conns |->
                    peerClosed[c] \/ (csock.state = "open" /\ csock.id = c)]
    /\ Return("ok")
    /\ UNCHANGED <<mode, files, dirs, pc, buffer, c2s, sent, fname, fbuf, fpos,
                   script, peerPos, upload, disp>>
    /\ UNCHANGED <<cprog, clocal, coutDir, cout, ctotal,
                   creceived, creported, coff, crd>>

\* The running call is upload(name) (op "upload"), upload(name,
\* compress=True) (op "upload_z") or the upload(path) of share_directory
\* (op "share_upload").
RunningUpload ==
    /\ cip <= Len(cprog)
    /\ cprog[cip].op \in {"upload", "upload_z", "share_upload"}

Compress == cprog[cip].op = "upload_z"

\* compress_file: zip_path = f"{path}.zip", and the archive written there (a
\* header and the data, whatever the bytes of a real archive are).
ZipPath(path) == path \o <<".", "z", "i", "p">>

ZipOf(data) == <<"P", "K">> \o data

\* file_to_send, and label = os.path.basename(file_to_send): the names of the
\* model have no directory part.
FileToSend ==
    IF Compress THEN ZipPath(cprog[cip].name) ELSE cprog[cip].name

\* The local files once upload has passed its compress step.
Compressed ==
    IF Compress
    THEN [n \in DOMAIN clocal \cup {FileToSend} |->
            IF n = FileToSend THEN ZipOf(clocal[cprog[cip].name]) ELSE clocal[n]]
    ELSE clocal

\* os.remove(file_to_send) after the upload of an archive
Removed ==
    IF Compress THEN [n \in DOMAIN clocal \ {FileToSend} |-> clocal[n]]
    ELSE clocal

\* f"LOAD {label} {'COMPRESSED' if compress else ''}\n"
UploadCommand(label) ==
    T_LOAD \o SP \o label \o SP
        \o (IF Compress THEN <<"C", "O", "M", "P", "R", "E", "S", "S", "E", "D">>
            ELSE <<>>)
        \o NL

\* FileClient.upload to the send of the LOAD line.
ClientUploadStart ==
    /\ RunningUpload
    /\ cpc = "start"
    /\ LET name == cprog[cip].name
       IN  IF csock.state = "none"
           THEN Return("skipped") /\ UNCHANGED <<c2s, coff, clocal>>
           ELSE IF name \notin DOMAIN clocal
           THEN Raise("FileNotFound") /\ UNCHANGED <<c2s, coff, clocal>>
           ELSE /\ clocal' = Compressed
                /\ \E ok \in ClientSendOutcomes :
                      IF ok
                      THEN /\ c2s' = [c2s EXCEPT ![csock.id] =
                                         @ \o UploadCommand(FileToSend)]
                           /\ coff' = 0
                           /\ cpc' = "wait_ready"
                           /\ UNCHANGED <<cip, cdone>>
                      ELSE Raise("ErrorDuringUpload") /\ UNCHANGED <<c2s, coff>>
    /\ UNCHANGED <<mode, files, dirs, pc, buffer, peerClosed, sent, fname, fbuf,
                   fpos, script, peerPos, upload, disp>>
    /\ UNCHANGED <<cprog, csock, coutDir, cout, ctotal,
                   creceived, creported, crd>>

\* FileClient.upload: resp = self.client_socket.recv(1024).decode().strip()
\* and the test for READY.  The read returns any non-empty prefix of what is
\* in flight, or nothing when the server has closed the connection.
ClientUploadRecvReady ==
    /\ RunningUpload
    /\ cpc = "wait_ready"
    /\ \E k \in 0..Min(Len(ClientAvail), LINE_RECV) :
          /\ IF ClientAvail = <<>> THEN pc[csock.id] = "closed" ELSE k > 0
          /\ crd' = [crd EXCEPT ![csock.id] = @ + k]
          /\ IF Strip(Prefix(ClientAvail, k)) # T_READY
             THEN Return("skipped")
             ELSE cpc' = "send_body" /\ UNCHANGED <<cip, cdone>>
    /\ UNCHANGED svars
    /\ UNCHANGED <<cprog, csock, clocal, coutDir, cout, ctotal,
                   creceived, creported, coff>>

\* The next chunk of the file that upload sends: f.read(4096).
UploadChunk ==
    LET data == clocal[FileToSend]
    IN  SubSeq(data, coff + 1, Min(Len(data), coff + CHUNK))

\* FileClient.upload: one turn of the loop that sends the file.
ClientUploadSendChunk ==
    /\ RunningUpload
    /\ cpc = "send_body"
    /\ UploadChunk # <<>>
    /\ \E ok \in ClientSendOutcomes :
          IF ok
          THEN /\ c2s' = [c2s EXCEPT ![csock.id] = @ \o UploadChunk]
               /\ coff' = coff + Len(UploadChunk)
               /\ UNCHANGED <<cip, cpc, cdone>>
          ELSE Raise("ErrorDuringUpload") /\ UNCHANGED <<c2s, coff>>
    /\ UNCHANGED <<mode, files, dirs, pc, buffer, peerClosed, sent, fname, fbuf,
                   fpos, script, peerPos, upload, disp>>
    /\ UNCHANGED <<cprog, csock, clocal, coutDir, cout, ctotal,
                   creceived, creported, crd>>

\* FileClient.upload: the file is read to its end, the sentinel is sent and
\* upload returns.
ClientUploadSendEnd ==
    /\ RunningUpload
    /\ cpc = "send_body"
    /\ UploadChunk = <<>>
    /\ \E ok \in ClientSendOutcomes :
          IF ok
          THEN /\ c2s' = [c2s EXCEPT ![csock.id] = @ \o SENTINEL]
               /\ clocal' = Removed
               /\ Return("ok")
          ELSE Raise("ErrorDuringUpload") /\ UNCHANGED <<c2s, clocal>>
    /\ UNCHANGED <<mode, files, dirs, pc, buffer, peerClosed, sent, fname, fbuf,
                   fpos, script, peerPos, upload, disp>>
    /\ UNCHANGED <<cprog, csock, coutDir, cout, ctotal,
                   creceived, creported, coff, crd>>

\* share_directory: the upload in the try block has raised.
Raised ==
    /\ cdone # <<>>
    /\ cdone[Len(cdone)].op = "share_upload"
    /\ cdone[Len(cdone)].result \notin {"ok", "skipped"}

\* A variant of AfterFinally under which the loop goes on after an exception.
AfterFinallyGoesOn == cip + 1

\* share_directory: where the run goes after the finally clause: to the next
\* file of the loop, or out of share_directory with the exception.
AfterFinally == IF Raised THEN Len(cprog) + 1 ELSE cip + 1

\* share_directory: `finally: self.disconnect()`, which closes client_socket
\* when there is one.
ClientShareFinally ==
    /\ Running("share_finally")
    /\ cpc = "start"
    /\ IF csock.state = "none"
       THEN UNCHANGED <<csock, peerClosed>>
       ELSE /\ csock' = [csock EXCEPT !.state = "closed"]
            /\ peerClosed' = [c \in Conns |->
                    peerClosed[c] \/ (csock.state = "open" /\ csock.id = c)]
    /\ cdone' = Append(cdone, [op |-> "share_finally", result |-> "ok"])
    /\ cip' = AfterFinally
    /\ UNCHANGED <<mode, files, dirs, pc, buffer, c2s, sent, fname, fbuf, fpos,
                   script, peerPos, upload, disp>>
    /\ UNCHANGED <<cprog, cpc, clocal, coutDir, cout, ctotal,
                   creceived, creported, coff, crd>>

\* f"GET FILE {file_name}\n"
DownloadCommand(name) == T_GET \o SP \o T_FILE \o SP \o name \o NL

\* FileClient.download to the send of the GET FILE line.
ClientDownloadStart ==
    /\ Running("download")
    /\ cpc = "start"
    /\ IF csock.state = "none"
       THEN Return("skipped") /\ UNCHANGED c2s
       ELSE \E ok \in ClientSendOutcomes :
               IF ok
               THEN /\ c2s' = [c2s EXCEPT
                                 ![csock.id] = @ \o DownloadCommand(cprog[cip].name)]
                    /\ cpc' = "wait_line"
                    /\ UNCHANGED <<cip, cdone>>
               ELSE Raise("ErrorDuringDownload") /\ UNCHANGED c2s
    /\ UNCHANGED <<mode, files, dirs, pc, buffer, peerClosed, sent, fname, fbuf,
                   fpos, script, peerPos, upload, disp>>
    /\ UNCHANGED <<cprog, csock, clocal, coutDir, cout, ctotal,
                   creceived, creported, coff,
                   crd>>

\* What download makes of the first read: the exception it raises, or "READY"
\* with the size it takes from the line.
ParseReady(data) ==
    LET line  == Strip(data)
        parts == Split(line)
    IN  IF StartsWith(line, T_ERROR)
        THEN [kind |-> "FileNotFound", size |-> 0]
        ELSE IF parts = <<>>
        THEN [kind |-> "ErrorDuringDownload", size |-> 0]
        ELSE IF parts[1] # T_READY \/ Len(parts) # 2
        THEN [kind |-> "ErrorDuringDownload", size |-> 0]
        ELSE IF ~IsDigits(parts[2])
        THEN [kind |-> "ErrorDuringDownload", size |-> 0]
        ELSE [kind |-> "READY", size |-> IntOf(parts[2])]

\* open(output_path, "wb"): the output file is created or truncated
CreateOutput(fs, name) ==
    [n \in DOMAIN fs \cup {name} |-> IF n = name THEN <<>> ELSE fs[n]]

\* FileClient.download: line = self.client_socket.recv(1024).decode().strip(),
\* the parse of the line and, for READY <size>, os.makedirs(output_dir) and
\* the open of the output file.
ClientDownloadRecvLine ==
    /\ Running("download")
    /\ cpc = "wait_line"
    /\ \E k \in 0..Min(Len(ClientAvail), LINE_RECV) :
          /\ IF ClientAvail = <<>> THEN pc[csock.id] = "closed" ELSE k > 0
          /\ crd' = [crd EXCEPT ![csock.id] = @ + k]
          /\ LET r == ParseReady(Prefix(ClientAvail, k))
             IN  IF r.kind # "READY"
                 THEN /\ Raise(r.kind)
                      /\ UNCHANGED <<coutDir, cout, ctotal,
                                     creceived, creported>>
                 ELSE /\ ctotal' = r.size
                      /\ coutDir' = TRUE
                      /\ cout' = CreateOutput(cout, cprog[cip].name)
                      /\ creceived' = 0
                      /\ creported' = <<>>
                      /\ cpc' = "recv_body"
                      /\ UNCHANGED <<cip, cdone>>
    /\ UNCHANGED svars
    /\ UNCHANGED <<cprog, csock, clocal, coff>>

\* A variant of RecvSize that asks for a full chunk whatever remains.
RecvSizeWholeChunk == CHUNK

\* FileClient.download: the size of one read of the body,
\* min(4096, total_size - received).
RecvSize == Min(CHUNK, ctotal - creceived)

\* FileClient.download: one turn of `while received < total_size`, or the
\* normal return when the loop ends.  An empty read raises PeerDisconnected,
\* which `except Exception` turns into ErrorDuringDownload.
ClientDownloadRecvBody ==
    /\ Running("download")
    /\ cpc = "recv_body"
    /\ IF creceived < ctotal
       THEN \E k \in 0..Min(Len(ClientAvail), RecvSize) :
               /\ IF ClientAvail = <<>> THEN pc[csock.id] = "closed" ELSE k > 0
               /\ crd' = [crd EXCEPT ![csock.id] = @ + k]
               /\ IF k = 0
                  THEN /\ Raise("ErrorDuringDownload")
                       /\ UNCHANGED <<cout, creceived, creported>>
                  ELSE /\ cout' = [cout EXCEPT
                                     ![cprog[cip].name] = @ \o Prefix(ClientAvail, k)]
                       /\ creceived' = creceived + k
                       /\ creported' = Append(creported, k)
                       /\ UNCHANGED <<cip, cpc, cdone>>
       ELSE /\ Return("ok")
            /\ UNCHANGED <<cout, creceived, creported, crd>>
    /\ UNCHANGED svars
    /\ UNCHANGED <<cprog, csock, clocal, coutDir, ctotal, coff>>

\* No client: the state of the client's variables in the specifications of
\* the server alone.
ClientIdle ==
    /\ cprog = <<>>
    /\ cip = 1
    /\ cpc = "start"
    /\ csock = NoSocket
    /\ clocal = <<>>
    /\ coutDir = FALSE
    /\ cout = <<>>
    /\ ctotal = 0
    /\ creceived = 0
    /\ creported = <<>>
    /\ coff = 0
    /\ crd = [c \in Conns |-> 0]
    /\ cdone = <<>>

(***************************************************************************)
(* The single-connection specification: one raw peer, any script.          *)
(***************************************************************************)
\* Longest file body drawn from BodyAlphabet.
MaxBody == 2

BodyAlphabet == {"a", "\n"}

\* File names of the scripts: f is new, g is stored, d is a subdirectory of
\* the storage directory, h is absent.
NameF == <<"f">>

NameG == <<"g">>

NameD == <<"d">>

NameH == <<"h">>

Files0 == [n \in {NameG} |-> <<"x", "y">>]

Dirs0 == {NameD}

SeqsUpTo(S, n) == UNION { [1..k -> S] : k \in 0..n }

\* Bodies without the sentinel, and bodies that hold it.
PlainBodies == SeqsUpTo(BodyAlphabet, MaxBody) \cup {<<"<", "E">>}

SentinelBodies == { <<"a">> \o SENTINEL \o <<"b">>, SENTINEL }

Line1(a) == a \o NL

Line2(a, b) == a \o SP \o b \o NL

Line3(a, b, c) == a \o SP \o b \o SP \o c \o NL

\* What a client sends for an upload: the LOAD line, the body, the sentinel.
UploadRequest(name, body) == Line2(T_LOAD, name) \o body \o SENTINEL

\* Lines that are no well-formed LOAD, GET FILE or GET FILES.
BadLines ==
    { NL, Line1(<<"X">>), Line2(T_GET, T_FILE), Line3(T_GET, <<"X">>, NameG),
      Line1(T_LOAD) }

Requests ==
    BadLines
    \cup { Line2(T_LOAD, NameD),
           Line3(T_GET, T_FILE, NameH), Line3(T_GET, T_FILE, NameG),
           Line3(T_GET, T_FILES, T_ALL) }
    \cup { UploadRequest(NameF, b) : b \in PlainBodies \cup SentinelBodies }

\* What may follow a request: nothing, a further command, an upload that
\* never ends, a line without its newline.
Probes ==
    { <<>>, Line3(T_GET, T_FILE, NameF), Line1(<<"X">>),
      Line2(T_LOAD, NameF) \o <<"a">>, <<"X">> }

Scripts == { r \o p : r \in Requests, p \in Probes }

EmptyConn == [c \in Conns |-> <<>>]

Init ==
    /\ mode \in {"threaded", "async"}
    /\ files = Files0
    /\ dirs = Dirs0
    /\ pc = [c \in Conns |-> IF c = 1 THEN "loop" ELSE "none"]
    /\ buffer = EmptyConn
    /\ c2s = EmptyConn
    /\ peerClosed = [c \in Conns |-> FALSE]
    /\ sent = EmptyConn
    /\ fname = EmptyConn
    /\ fbuf = EmptyConn
    /\ fpos = [c \in Conns |-> 0]
    /\ \E s \in Scripts : script = [c \in Conns |-> IF c = 1 THEN s ELSE <<>>]
    /\ peerPos = [c \in Conns |-> 0]
    /\ upload = [c \in Conns |-> NoUpload]
    /\ disp = EmptyConn
    /\ ClientIdle

Next ==
    \E c \in Conns :
        \/ PeerSend(c)
        \/ PeerClose(c)
        \/ HandleClientRecv(c)
        \/ HandleClientDispatch(c)
        \/ StreamReaderFeed(c)
        \/ HandleClientAsyncDispatch(c)
        \/ CmdLoadOpen(c)
        \/ CmdLoadRecv(c)
        \/ CmdLoadAsyncRead(c)
        \/ CmdGetFileRead(c)

Spec == Init /\ [][Next]_vars

(***************************************************************************)
(* Observations on a connection's history.                                 *)
(***************************************************************************)
\* The bytes the server sent between the dispatch of the i-th line of
\* connection c and the dispatch of the next (or until now).
Reply(c, i) ==
    SubSeq(sent[c], disp[c][i].at + 1,
           IF i < Len(disp[c]) THEN disp[c][i + 1].at ELSE Len(sent[c]))

\* The handling of the i-th dispatched line of connection c has ended.
Handled(c, i) == i < Len(disp[c]) \/ pc[c] \in {"loop", "closed"}

\* Exactly one newline-terminated line, which starts with ERROR.
OneErrorLine(r) == StartsWith(r, T_ERROR) /\ Find(r, NL) = Len(r)

\* A line that is no LOAD <name>, GET FILE <name> or GET FILES <pattern>.
Malformed(line) ==
    LET parts == Split(line)
    IN  \/ parts = <<>>
        \/ /\ parts # <<>>
           /\ ~(Upper(parts[1]) = T_LOAD /\ Len(parts) >= 2)
           /\ ~(/\ Upper(parts[1]) = T_GET
                /\ Len(parts) >= 3
                /\ Upper(parts[2]) \in {T_FILE, T_FILES})

\* The stripped lines of the byte string s; a last piece without newline
\* counts when it is not empty.
RECURSIVE LinesOf(_)
LinesOf(s) ==
    IF Contains(s, NL) THEN {Strip(Before(s, NL))} \cup LinesOf(After(s, NL))
    ELSE IF s = <<>> THEN {} ELSE {Strip(s)}

\* The script of connection c starts with a LOAD line; PayloadStream is what
\* the peer sends after that line's newline.
StartsWithLoad(c) == StartsWith(script[c], Line2(T_LOAD, NameF))

PayloadStream(c) == After(script[c], NL)

(***************************************************************************)
(* Claims on the single-connection specification.                          *)
(***************************************************************************)
\* C2: the upload handler stops at the first point where the bytes received
\* after READY, taken together, contain the sentinel, however they are split
\* into reads; the stored file then holds exactly the bytes before the
\* sentinel.  (Stated as the claim; the code violates it.)
C2_SentinelAtAnyReadBoundary ==
    \A c \in Conns :
        /\ upload[c].state = "running" => ~Contains(upload[c].recv, SENTINEL)
        /\ upload[c].state = "complete" =>
              /\ Contains(upload[c].recv, SENTINEL)
              /\ files[upload[c].name] = Before(upload[c].recv, SENTINEL)

\* C4: once a LOAD line is dispatched, every byte the peer sent after that
\* line's newline and before the sentinel is written to the target file and
\* none of it is dispatched as a command, also when it arrived in the same
\* read as the LOAD line.  (Stated as the claim; the code violates it.)
C4_PayloadIsNeverACommand ==
    \A c \in Conns :
        (StartsWithLoad(c) /\ Contains(PayloadStream(c), SENTINEL)) =>
            /\ upload[c].state = "complete" =>
                  files[NameF] = Before(PayloadStream(c), SENTINEL)
            /\ \A i \in DOMAIN disp[c] :
                  disp[c][i].line \in
                      {Strip(Before(script[c], NL))}
                      \cup LinesOf(After(PayloadStream(c), SENTINEL))

\* A command whose handling fails without a transport failure: an unknown
\* verb, LOAD without a name, GET FILE of an absent name, LOAD of a name that
\* cannot be opened.
FailingCommand(line) ==
    LET parts == Split(line)
    IN  /\ parts # <<>>
        /\ \/ Upper(parts[1]) \notin {T_LOAD, T_GET}
           \/ Upper(parts[1]) = T_LOAD /\ Len(parts) = 1
           \/ Upper(parts[1]) = T_LOAD /\ Len(parts) >= 2 /\ parts[2] \in dirs
           \/ /\ Upper(parts[1]) = T_GET
              /\ Len(parts) >= 3
              /\ Upper(parts[2]) = T_FILE
              /\ ~IsFile(parts[3])

\* C5: a handled protocol error never closes the connection: after such a
\* command the server has sent an ERROR line and the connection is still
\* open; only a peer close or reset ends the connection loop.  (Stated as
\* the claim; the code violates it.)
C5_ErrorKeepsConnectionOpen ==
    \A c \in Conns :
        /\ pc[c] = "closed" => peerClosed[c]
        /\ \A i \in DOMAIN disp[c] :
              (FailingCommand(disp[c][i].line) /\ Handled(c, i) /\ ~peerClosed[c])
                  => StartsWith(Reply(c, i), T_ERROR)

\* C6: every received line that is no well-formed LOAD, GET FILE or GET FILES
\* is answered with exactly one line that starts with ERROR, and with nothing
\* else.  (Stated as the claim; the code violates it.)
C6_MalformedLineGetsOneError ==
    \A c \in Conns :
        \A i \in DOMAIN disp[c] :
            (Malformed(disp[c][i].line) /\ ~peerClosed[c])
                => OneErrorLine(Reply(c, i))

(***************************************************************************)
(* The client specification: a FileClient program against the server.     *)
(***************************************************************************)
\* The round trip of test_roundtrip_upload_download.
RoundTrip(name) ==
    <<Call("connect", <<>>), Call("upload", name), Call("disconnect", <<>>),
      Call("connect", <<>>), Call("download", name), Call("disconnect", <<>>)>>

\* A download alone.
DownloadOnly(name) == <<Call("connect", <<>>), Call("download", name)>>

InitClient ==
    /\ mode \in {"threaded", "async"}
    /\ files = Files0
    /\ dirs = Dirs0
    /\ pc = [c \in Conns |-> "none"]
    /\ buffer = EmptyConn
    /\ c2s = EmptyConn
    /\ peerClosed = [c \in Conns |-> FALSE]
    /\ sent = EmptyConn
    /\ fname = EmptyConn
    /\ fbuf = EmptyConn
    /\ fpos = [c \in Conns |-> 0]
    /\ script = EmptyConn
    /\ peerPos = [c \in Conns |-> 0]
    /\ upload = [c \in Conns |-> NoUpload]
    /\ disp = EmptyConn
    /\ \/ /\ cprog = RoundTrip(NameF)
          /\ \E b \in PlainBodies \cup SentinelBodies :
                clocal = [n \in {NameF} |-> b]
       \/ /\ cprog \in {DownloadOnly(NameH), DownloadOnly(NameG)}
          /\ clocal = <<>>
    /\ cip = 1
    /\ cpc = "start"
    /\ csock = NoSocket
    /\ coutDir = FALSE
    /\ cout = <<>>
    /\ ctotal = 0
    /\ creceived = 0
    /\ creported = <<>>
    /\ coff = 0
    /\ crd = [c \in Conns |-> 0]
    /\ cdone = <<>>

\* A server that serves one connection at a time: no other connection is
\* served while one is inside an upload.
ServerStepOneAtATime(c) ==
    /\ \A d \in Conns \ {c} : pc[d] \notin {"load_open", "load_recv"}
    /\ \/ HandleClientRecv(c)
       \/ HandleClientDispatch(c)
       \/ StreamReaderFeed(c)
       \/ HandleClientAsyncDispatch(c)
       \/ CmdLoadOpen(c)
       \/ CmdLoadRecv(c)
       \/ CmdLoadAsyncRead(c)
       \/ CmdGetFileRead(c)

ServerStep(c) ==
    \/ HandleClientRecv(c)
    \/ HandleClientDispatch(c)
    \/ StreamReaderFeed(c)
    \/ HandleClientAsyncDispatch(c)
    \/ CmdLoadOpen(c)
    \/ CmdLoadRecv(c)
    \/ CmdLoadAsyncRead(c)
    \/ CmdGetFileRead(c)

NextClient ==
    \/ ClientConnect
    \/ ClientDisconnect
    \/ ClientUploadStart
    \/ ClientUploadRecvReady
    \/ ClientUploadSendChunk
    \/ ClientUploadSendEnd
    \/ ClientDownloadStart
    \/ ClientDownloadRecvLine
    \/ ClientDownloadRecvBody
    \/ \E c \in Conns : ServerStep(c)

SpecClient == InitClient /\ [][NextClient]_vars

(***************************************************************************)
(* Claims on the client specification.                                     *)
(***************************************************************************)
\* The call at index i of the program has ended with one of `results`.
Ended(i, results) == Len(cdone) >= i /\ cdone[i].result \in results

\* C1: round trip: for every content without the sentinel, when upload
\* returns without error, the client disconnects, reconnects and download
\* returns without error, the downloaded file is byte-identical to the
\* uploaded one, for every split of the two byte streams into reads and every
\* scheduling of the server's workers.  (Stated as the claim; the code
\* violates it.)
C1_RoundTripIdentical ==
    ( /\ cprog = RoundTrip(NameF)
      /\ ~Contains(clocal[NameF], SENTINEL)
      /\ Ended(2, {"ok", "skipped"})
      /\ Ended(5, {"ok"}) )
        => cout[NameF] = clocal[NameF]

\* C3: uploading a content that holds the sentinel is not a crash: the upload
\* completes, the stored file is the prefix of the content before the first
\* sentinel, and the connection loop keeps running, however the content is
\* split into reads.  (Stated as the claim; the code violates it.)
C3_SentinelInContentTruncates ==
    ( /\ cprog = RoundTrip(NameF)
      /\ Contains(clocal[NameF], SENTINEL) )
        => /\ pc[1] = "closed" => peerClosed[1]
           /\ upload[1].state = "complete" =>
                 files[NameF] = Before(clocal[NameF], SENTINEL)
           /\ ( /\ Ended(2, {"ok"})
                /\ ~peerClosed[1]
                /\ c2s[1] = <<>>
                /\ buffer[1] = <<>>
                /\ pc[1] \in {"loop", "load_recv"} )
                 => upload[1].state = "complete"

\* C7: GET FILE of a name that is no file in storage: the server sends the
\* one line ERROR FileNotFound <name> and nothing else and leaves the storage
\* directory unchanged; the client's download raises FileNotFound and creates
\* neither the output directory nor an output file.  (Stated as the claim;
\* the code violates it.)
C7_AbsentFileDownload ==
    cprog = DownloadOnly(NameH) =>
        /\ files = Files0
        /\ dirs = Dirs0
        /\ sent[1] \in {<<>>, MSG_FILE_NOT_FOUND(NameH)}
        /\ ~coutDir
        /\ cout = <<>>
        /\ (Len(cdone) >= 2 /\ csock.state = "open")
              => cdone[2].result = "FileNotFound"

(***************************************************************************)
(* The listing specification: a connection that has read one GET FILES     *)
(* line over a storage directory drawn from a bounded set of directories.  *)
(***************************************************************************)
MaxName == 2

MaxEntries == 2

MaxPat == 2

NameAlphabet == {"a", "A", "."}

PatAlphabet == {"a", ".", "*"}

\* File names: "." and ".." are no directory entries.
ListNames ==
    (SeqsUpTo(NameAlphabet, MaxName)) \ {<<>>, <<".">>, <<".", ".">>}

Patterns ==
    (SeqsUpTo(PatAlphabet, MaxPat) \ {<<>>}) \cup {T_ALL, <<"a", "l", "l">>}

\* A file inside the subdirectory d.
NestedName == NameD \o <<"/">> \o <<"a">>

\* The storage directories: at most MaxEntries files, with or without a
\* subdirectory that holds a file.
Storages ==
    { [fs |-> E \cup sub.nested, ds |-> sub.ds] :
        E \in { X \in SUBSET ListNames : Cardinality(X) <= MaxEntries },
        sub \in { [ds |-> {}, nested |-> {}],
                  [ds |-> {NameD}, nested |-> {NestedName}] } }

\* The storage and the pattern of test_search_pattern.
OneLog == <<"o", "n", "e", ".", "l", "o", "g">>

TwoTxt == <<"t", "w", "o", ".", "t", "x", "t">>

ThreeLog == <<"t", "h", "r", "e", "e", ".", "l", "o", "g">>

StarLog == <<"*", ".", "l", "o", "g">>

ListCases ==
    { [st |-> st, pat |-> p] : st \in Storages, p \in Patterns }
    \cup { [st |-> [fs |-> {OneLog, TwoTxt, ThreeLog}, ds |-> {}],
            pat |-> StarLog] }

InitList ==
    /\ mode \in {"threaded", "async"}
    /\ \E case \in ListCases :
          /\ files = [n \in case.st.fs |-> <<"x">>]
          /\ dirs = case.st.ds
          /\ script = [c \in Conns |->
                         IF c = 1 THEN Line3(T_GET, T_FILES, case.pat)
                         ELSE <<>>]
    /\ pc = [c \in Conns |-> IF c = 1 THEN "loop" ELSE "none"]
    /\ buffer = script
    /\ c2s = EmptyConn
    /\ peerClosed = [c \in Conns |-> FALSE]
    /\ sent = EmptyConn
    /\ fname = EmptyConn
    /\ fbuf = EmptyConn
    /\ fpos = [c \in Conns |-> 0]
    /\ peerPos = [c \in Conns |-> Len(script[c])]
    /\ upload = [c \in Conns |-> NoUpload]
    /\ disp = EmptyConn
    /\ ClientIdle

NextList ==
    \E c \in Conns :
        \/ HandleClientDispatch(c)
        \/ HandleClientAsyncDispatch(c)

SpecList == InitList /\ [][NextList]_vars

(***************************************************************************)
(* Claims on the listing specification.                                    *)
(***************************************************************************)
\* The pattern of a GET FILES line, <<>> for any other line.
PatternOf(line) ==
    LET parts == Split(line)
    IN  IF /\ Len(parts) >= 3
           /\ Upper(parts[1]) = T_GET
           /\ Upper(parts[2]) = T_FILES
        THEN parts[3] ELSE <<>>

\* The responses that list exactly the names of S, one per line, in any
\* order, closed by a newline (the empty S gives the single empty line).
ListingsOf(S) == { Join(o) \o NL : o \in Orders(S) }

\* The immediate entries of the storage directory, files and directories.
Entries == { n \in DOMAIN files \cup dirs : \A i \in DOMAIN n : n[i] # "/" }

\* p read as a glob whose only wildcard is "*", against the whole name s.
RECURSIVE GlobMatch(_, _)
GlobMatch(p, s) ==
    IF p = <<>> THEN s = <<>>
    ELSE IF p[1] = "*"
    THEN \E k \in 0..Len(s) : GlobMatch(Tail(p), Suffix(s, k))
    ELSE s # <<>> /\ p[1] = s[1] /\ GlobMatch(Tail(p), Tail(s))

\* C9: the response to GET FILES ALL lists, as newline-separated lines,
\* exactly the names of the immediate entries of the storage directory: none
\* missing, none added, none twice, case unchanged, nothing from inside a
\* subdirectory; for an empty storage it is the single empty line.
C9_ListAllIsTheStorage ==
    \A c \in Conns : \A i \in DOMAIN disp[c] :
        (PatternOf(disp[c][i].line) = T_ALL /\ Handled(c, i))
            => Reply(c, i) \in ListingsOf(Entries)

\* A GET FILES ALL has been answered over a storage that holds two names
\* that differ in case only and a subdirectory with a file in it.
C9_Witness ==
    \E c \in Conns : \E i \in DOMAIN disp[c] :
        /\ PatternOf(disp[c][i].line) = T_ALL
        /\ Handled(c, i)
        /\ {<<"a">>, <<"A">>} \subseteq DOMAIN files
        /\ NameD \in dirs
        /\ NestedName \in DOMAIN files
        /\ Len(Reply(c, i)) = 6

\* A GET FILES ALL has been answered over the empty storage.
C9_WitnessEmpty ==
    \E c \in Conns : \E i \in DOMAIN disp[c] :
        /\ PatternOf(disp[c][i].line) = T_ALL
        /\ Handled(c, i)
        /\ Entries = {}
        /\ Reply(c, i) = NL

\* C10: for every pattern other than the literal ALL, a name is in the
\* response to GET FILES <pattern> if and only if the whole name matches the
\* pattern read as a glob in which "*" is the only wildcard and every other
\* character matches only itself.  (Stated as the claim; the code violates
\* it.)
C10_PatternIsAGlob ==
    \A c \in Conns : \A i \in DOMAIN disp[c] :
        LET p == PatternOf(disp[c][i].line)
        IN  (p \notin {<<>>, T_ALL} /\ Handled(c, i))
                => Reply(c, i) \in
                      ListingsOf({ n \in Entries : GlobMatch(p, n) })

\* The example of test_search_pattern: *.log over one.log, two.txt and
\* three.log lists exactly one.log and three.log.
C10_TestExample ==
    \A c \in Conns : \A i \in DOMAIN disp[c] :
        (PatternOf(disp[c][i].line) = StarLog /\ Handled(c, i)
            /\ DOMAIN files = {OneLog, TwoTxt, ThreeLog})
            => Reply(c, i) \in ListingsOf({OneLog, ThreeLog})

(***************************************************************************)
(* The two-worker specification: the threaded runtime with two             *)
(* connections, one that downloads g and one that uploads g.               *)
(***************************************************************************)
InitTwo ==
    /\ mode = "threaded"
    /\ files = Files0
    /\ dirs = Dirs0
    /\ pc = [c \in Conns |-> "loop"]
    /\ buffer = EmptyConn
    /\ c2s = EmptyConn
    /\ peerClosed = [c \in Conns |-> FALSE]
    /\ sent = EmptyConn
    /\ fname = EmptyConn
    /\ fbuf = EmptyConn
    /\ fpos = [c \in Conns |-> 0]
    /\ \E b \in SeqsUpTo({"a"}, MaxBody + 1) :
          script = [c \in Conns |->
                      IF c = 1 THEN Line3(T_GET, T_FILE, NameG)
                      ELSE UploadRequest(NameG, b)]
    /\ peerPos = [c \in Conns |-> 0]
    /\ upload = [c \in Conns |-> NoUpload]
    /\ disp = EmptyConn
    /\ ClientIdle

NextTwo ==
    \E c \in Conns :
        \/ PeerSend(c)
        \/ PeerClose(c)
        \/ HandleClientRecv(c)
        \/ HandleClientDispatch(c)
        \/ CmdLoadOpen(c)
        \/ CmdLoadRecv(c)
        \/ CmdGetFileRead(c)

SpecTwo == InitTwo /\ [][NextTwo]_vars

\* The name of a GET FILE line, <<>> for any other line.
FileOf(line) ==
    LET parts == Split(line)
    IN  IF /\ Len(parts) >= 3
           /\ Upper(parts[1]) = T_GET
           /\ Upper(parts[2]) = T_FILE
        THEN parts[3] ELSE <<>>

\* r is READY <n>, then n bytes, then the sentinel.
Framed(r, n) ==
    /\ StartsWith(r, MSG_READY_SIZE(n))
    /\ Len(r) = Len(MSG_READY_SIZE(n)) + n + Len(SENTINEL)
    /\ Suffix(r, Len(r) - Len(SENTINEL)) = SENTINEL

\* C8: what the server writes for a GET FILE of a stored file is the line
\* READY <size>, then exactly <size> body bytes, then the sentinel, also when
\* another connection runs a LOAD of the same name meanwhile.  (Stated as the
\* claim; the code violates it.)
C8_DownloadFraming ==
    \A c \in Conns : \A i \in DOMAIN disp[c] :
        ( /\ FileOf(disp[c][i].line) # <<>>
          /\ Handled(c, i)
          /\ ~peerClosed[c]
          /\ StartsWith(Reply(c, i), T_READY) )
            => \E n \in 0..Len(Reply(c, i)) : Framed(Reply(c, i), n)

(***************************************************************************)
(* The concurrent-uploads specification: the threaded runtime with one     *)
(* connection per uploaded name, the names pairwise distinct.              *)
(***************************************************************************)
\* The name connection c uploads.
UploadNameOf(c) == IF c = 1 THEN NameF ELSE NameH

InitUploads ==
    /\ mode = "threaded"
    /\ files = Files0
    /\ dirs = Dirs0
    /\ pc = [c \in Conns |-> "loop"]
    /\ buffer = EmptyConn
    /\ c2s = EmptyConn
    /\ peerClosed = [c \in Conns |-> FALSE]
    /\ sent = EmptyConn
    /\ fname = EmptyConn
    /\ fbuf = EmptyConn
    /\ fpos = [c \in Conns |-> 0]
    /\ \E b \in [Conns -> SeqsUpTo({"a"}, MaxBody)] :
          script = [c \in Conns |-> UploadRequest(UploadNameOf(c), b[c])]
    /\ peerPos = [c \in Conns |-> 0]
    /\ upload = [c \in Conns |-> NoUpload]
    /\ disp = EmptyConn
    /\ ClientIdle

NextUploads ==
    \E c \in Conns :
        \/ PeerSend(c)
        \/ HandleClientRecv(c)
        \/ HandleClientDispatch(c)
        \/ CmdLoadOpen(c)
        \/ CmdLoadRecv(c)

SpecUploads == InitUploads /\ [][NextUploads]_vars

\* The content connection c uploads: its script without the LOAD line and
\* the closing sentinel.
UploadedBody(c) ==
    SubSeq(script[c], Len(Line2(T_LOAD, UploadNameOf(c))) + 1,
           Len(script[c]) - Len(SENTINEL))

\* The peer of c has sent everything and the worker of c has nothing left to
\* read or dispatch.
Drained(c) ==
    /\ peerPos[c] = Len(script[c])
    /\ c2s[c] = <<>>
    /\ ~Contains(buffer[c], NL)
    /\ pc[c] \in {"loop", "load_recv"}

\* C11: in the threaded runtime, connections that upload pairwise distinct
\* names concurrently all complete under every interleaving of the workers,
\* and each stored file holds exactly the content uploaded under its name.
\* (Stated as the claim; the code violates it.)
C11_ConcurrentUploadsIndependent ==
    \A c \in Conns :
        /\ upload[c].state # "failed"
        /\ upload[c].state = "complete" =>
              files[UploadNameOf(c)] = UploadedBody(c)
        /\ Drained(c) => (upload[c].state = "complete" /\ pc[c] = "loop")

(***************************************************************************)
(* The broken-upload specification: both runtimes, connection 1 starts an  *)
(* upload of f and its peer closes before any sentinel, connection 2 sends *)
(* one command.  The workers and tasks of the server are scheduled fairly. *)
(***************************************************************************)
\* The commands of connection 2 and the response each one gets.
CloseProbes == { Line3(T_GET, T_FILE, NameG), Line1(<<"X">>) }

ProbeResponse(line) ==
    IF line = Line1(<<"X">>) THEN MSG_UNKNOWN_COMMAND
    ELSE MSG_READY_SIZE(Len(Files0[NameG])) \o Files0[NameG] \o SENTINEL

InitClose ==
    /\ mode \in {"threaded", "async"}
    /\ files = Files0
    /\ dirs = Dirs0
    /\ pc = [c \in Conns |-> "loop"]
    /\ buffer = EmptyConn
    /\ c2s = EmptyConn
    /\ peerClosed = [c \in Conns |-> FALSE]
    /\ sent = EmptyConn
    /\ fname = EmptyConn
    /\ fbuf = EmptyConn
    /\ fpos = [c \in Conns |-> 0]
    /\ \E b \in SeqsUpTo(BodyAlphabet, MaxBody) : \E p \in CloseProbes :
          script = [c \in Conns |->
                      IF c = 1 THEN Line2(T_LOAD, NameF) \o b ELSE p]
    /\ peerPos = [c \in Conns |-> 0]
    /\ upload = [c \in Conns |-> NoUpload]
    /\ disp = EmptyConn
    /\ ClientIdle

NextClose ==
    \/ \E c \in Conns : PeerSend(c)
    \/ PeerClose(1)
    \/ \E c \in Conns : ServerStep(c)

SpecClose ==
    /\ InitClose
    /\ [][NextClose]_vars
    /\ \A c \in Conns : WF_vars(ServerStep(c))

\* C12: when a peer closes its socket in the middle of an upload, before the
\* sentinel, the server's loop for that connection eventually reaches Closed,
\* and a command sent on another connection is still answered.
C12_BrokenUploadEndsItsLoopOnly ==
    /\ (peerClosed[1] /\ upload[1].state = "running") ~> (pc[1] = "closed")
    /\ (peerPos[2] = Len(script[2])) ~> (sent[2] = ProbeResponse(script[2]))

\* The peer of connection 1 closed during its upload, the upload failed and
\* the loop of connection 1 is closed; connection 2 has its answer and is
\* open.
C12_Witness ==
    /\ peerClosed[1]
    /\ upload[1].state = "failed"
    /\ upload[1].recv # <<>>
    /\ pc[1] = "closed"
    /\ sent[2] = ProbeResponse(script[2])
    /\ pc[2] = "loop"

(***************************************************************************)
(* Claims on the runtimes, the upload failure and the client's transfers.  *)
(***************************************************************************)
\* What the runtime that is not running would do with the line.
OtherRuntime(line) ==
    IF mode = "threaded" THEN _dispatch_command_async(line)
    ELSE _dispatch_command(line)

ThisRuntime(line) ==
    IF mode = "threaded" THEN _dispatch_command(line)
    ELSE _dispatch_command_async(line)

\* The handling of the i-th line of connection c ended the connection.
ClosedBy(c, i) == i = Len(disp[c]) /\ pc[c] = "closed"

\* C13: the two runtimes are interchangeable: on every line a peer sends,
\* the running runtime sends the response bytes the other runtime sends for
\* that line, leaves the connection open or closed as the other does, and
\* calls the same handler with the same argument.  (Stated as the claim; the
\* code violates it.)
C13_RuntimesInterchangeable ==
    \A c \in Conns : \A i \in DOMAIN disp[c] :
        (Handled(c, i) /\ ~peerClosed[c]) =>
            LET o == OtherRuntime(disp[c][i].line)
            IN  CASE o.op = "reply" ->
                        Reply(c, i) = o.arg /\ ~ClosedBy(c, i)
                  [] o.op = "return" ->
                        Reply(c, i) = <<>> /\ ~ClosedBy(c, i)
                  [] o.op = "raise" ->
                        Reply(c, i) = <<>> /\ ClosedBy(c, i)
                  [] OTHER -> ThisRuntime(disp[c][i].line) = o

(***************************************************************************)
(* The cut-upload specification: one connection, both runtimes; the peer   *)
(* sends a LOAD line for a new or a stored name, some payload without a    *)
(* sentinel, and closes.                                                   *)
(***************************************************************************)
InitCut ==
    /\ mode \in {"threaded", "async"}
    /\ files = Files0
    /\ dirs = Dirs0
    /\ pc = [c \in Conns |-> IF c = 1 THEN "loop" ELSE "none"]
    /\ buffer = EmptyConn
    /\ c2s = EmptyConn
    /\ peerClosed = [c \in Conns |-> FALSE]
    /\ sent = EmptyConn
    /\ fname = EmptyConn
    /\ fbuf = EmptyConn
    /\ fpos = [c \in Conns |-> 0]
    /\ \E n \in {NameF, NameG} : \E b \in SeqsUpTo(BodyAlphabet, MaxBody) :
          script = [c \in Conns |->
                      IF c = 1 THEN Line2(T_LOAD, n) \o b ELSE <<>>]
    /\ peerPos = [c \in Conns |-> 0]
    /\ upload = [c \in Conns |-> NoUpload]
    /\ disp = EmptyConn
    /\ ClientIdle

NextCut ==
    \E c \in Conns :
        \/ PeerSend(c)
        \/ PeerClose(c)
        \/ HandleClientRecv(c)
        \/ HandleClientDispatch(c)
        \/ StreamReaderFeed(c)
        \/ HandleClientAsyncDispatch(c)
        \/ CmdLoadOpen(c)
        \/ CmdLoadRecv(c)
        \/ CmdLoadAsyncRead(c)

SpecCut == InitCut /\ [][NextCut]_vars

\* C14: an upload whose peer's stream ends before the sentinel fails and is
\* reported as ErrorDuringUpload or not at all, and there is no rollback:
\* the named file then exists and holds exactly the payload bytes of this
\* attempt, the bytes the peer sent after the LOAD line before it closed,
\* also when the name was stored before with another content.  (Stated as
\* the claim; the code violates it.)
C14_CutUploadLeavesWhatWasReceived ==
    \A c \in Conns :
        upload[c].state = "failed" =>
            /\ IsFile(upload[c].name)
            /\ files[upload[c].name] = PayloadStream(c)
            /\ Reply(c, 1) \in {MSG_READY, MSG_READY \o MSG_UPLOAD(E_LOST)}

(***************************************************************************)
(* The upload specification: a FileClient that connects and calls upload   *)
(* once, with or without compression, for a local file, for a local file   *)
(* whose name is a directory of the server's storage, or for a path that   *)
(* is no local file.                                                       *)
(***************************************************************************)
UploadOnly(op, name) == <<Call("connect", <<>>), Call(op, name)>>

LocalNames == {NameF, NameD}

InitUpload ==
    /\ mode \in {"threaded", "async"}
    /\ files = Files0
    /\ dirs = Dirs0
    /\ pc = [c \in Conns |-> "none"]
    /\ buffer = EmptyConn
    /\ c2s = EmptyConn
    /\ peerClosed = [c \in Conns |-> FALSE]
    /\ sent = EmptyConn
    /\ fname = EmptyConn
    /\ fbuf = EmptyConn
    /\ fpos = [c \in Conns |-> 0]
    /\ script = EmptyConn
    /\ peerPos = [c \in Conns |-> 0]
    /\ upload = [c \in Conns |-> NoUpload]
    /\ disp = EmptyConn
    /\ \E op \in {"upload", "upload_z"} : \E n \in LocalNames \cup {NameH} :
          cprog = UploadOnly(op, n)
    /\ \E b \in SeqsUpTo({"a"}, MaxBody) : clocal = [n \in LocalNames |-> b]
    /\ cip = 1
    /\ cpc = "start"
    /\ csock = NoSocket
    /\ coutDir = FALSE
    /\ cout = <<>>
    /\ ctotal = 0
    /\ creceived = 0
    /\ creported = <<>>
    /\ coff = 0
    /\ crd = [c \in Conns |-> 0]
    /\ cdone = <<>>

NextUpload ==
    \/ ClientConnect
    \/ ClientUploadStart
    \/ ClientUploadRecvReady
    \/ ClientUploadSendChunk
    \/ ClientUploadSendEnd
    \/ \E c \in Conns :
          \/ HandleClientRecv(c)
          \/ HandleClientDispatch(c)
          \/ StreamReaderFeed(c)
          \/ HandleClientAsyncDispatch(c)
          \/ CmdLoadOpen(c)
          \/ CmdLoadRecv(c)
          \/ CmdLoadAsyncRead(c)

SpecUpload == InitUpload /\ [][NextUpload]_vars

\* No byte of the client has reached or is on its way to the server.
NothingSent ==
    \A c \in Conns : c2s[c] = <<>> /\ buffer[c] = <<>> /\ disp[c] = <<>>

\* C15: upload of a path that is no local file, called after connect()
\* whether or not the connection was established, raises FileNotFound, sends
\* no byte to the server and creates no compressed surrogate.
C15_MissingLocalFile ==
    cprog[2].name \notin LocalNames =>
        /\ NothingSent
        /\ DOMAIN clocal = LocalNames
        /\ Len(cdone) >= 2 => cdone[2].result = "FileNotFound"

\* upload(h, compress=True) has ended on a client whose connection was
\* refused, h being no local file.
C15_Witness ==
    /\ cprog[2] = Call("upload_z", NameH)
    /\ csock.state = "unconnected"
    /\ Len(cdone) = 2
    /\ cdone[2].result = "FileNotFound"

\* upload(h) has ended on a connected client, h being no local file.
C15_WitnessConnected ==
    /\ cprog[2] = Call("upload", NameH)
    /\ csock.state = "open"
    /\ Len(cdone) = 2
    /\ cdone[2].result = "FileNotFound"

\* s is a suffix of t.
IsSuffixOf(s, t) ==
    Len(s) <= Len(t) /\ SubSeq(t, Len(t) - Len(s) + 1, Len(t)) = s

\* C16: upload sends no body byte and no sentinel before it has read the
\* server's READY line; when the first response to the LOAD line is anything
\* other than READY, upload sends no body and no sentinel and raises, it does
\* not return normally.  (Stated as the claim; the code violates it.)
C16_UploadWaitsForReady ==
    cprog[2].name \in LocalNames =>
        /\ (RunningUpload /\ cpc = "wait_ready") =>
              /\ upload[csock.id].recv = <<>>
              /\ IsSuffixOf(buffer[csock.id] \o c2s[csock.id],
                            UploadCommand(FileToSend))
        /\ (Len(cdone) >= 2 /\ cdone[2].result = "skipped") =>
              /\ coff = 0
              /\ upload[csock.id].recv = <<>>
              /\ FALSE

(***************************************************************************)
(* The download specification: a FileClient that connects and downloads   *)
(* the stored file g from a server that may stop at any moment.            *)
(***************************************************************************)
\* The server process ends (its workers are daemon threads, its tasks end
\* with the event loop): the connection is closed from the server's side and
\* the client's reads return nothing once it has read what was sent.
ServerStop(c) ==
    /\ pc[c] \notin {"none", "closed"}
    /\ pc' = [pc EXCEPT ![c] = "closed"]
    /\ UNCHANGED <<mode, files, dirs, buffer, c2s, peerClosed, sent, fname,
                   fbuf, fpos, script, peerPos, upload, disp>>
    /\ UNCHANGED cvars

InitDownload ==
    /\ mode \in {"threaded", "async"}
    /\ \E b \in SeqsUpTo({"x"}, MaxBody) : files = [n \in {NameG} |-> b]
    /\ dirs = Dirs0
    /\ pc = [c \in Conns |-> "none"]
    /\ buffer = EmptyConn
    /\ c2s = EmptyConn
    /\ peerClosed = [c \in Conns |-> FALSE]
    /\ sent = EmptyConn
    /\ fname = EmptyConn
    /\ fbuf = EmptyConn
    /\ fpos = [c \in Conns |-> 0]
    /\ script = EmptyConn
    /\ peerPos = [c \in Conns |-> 0]
    /\ upload = [c \in Conns |-> NoUpload]
    /\ disp = EmptyConn
    /\ cprog = DownloadOnly(NameG)
    /\ clocal = <<>>
    /\ cip = 1
    /\ cpc = "start"
    /\ csock = NoSocket
    /\ coutDir = FALSE
    /\ cout = <<>>
    /\ ctotal = 0
    /\ creceived = 0
    /\ creported = <<>>
    /\ coff = 0
    /\ crd = [c \in Conns |-> 0]
    /\ cdone = <<>>

NextDownload ==
    \/ ClientConnect
    \/ ClientDownloadStart
    \/ ClientDownloadRecvLine
    \/ ClientDownloadRecvBody
    \/ \E c \in Conns :
          \/ HandleClientRecv(c)
          \/ HandleClientDispatch(c)
          \/ StreamReaderFeed(c)
          \/ HandleClientAsyncDispatch(c)
          \/ CmdGetFileRead(c)
          \/ ServerStop(c)

SpecDownload == InitDownload /\ [][NextDownload]_vars

\* download has ended after it took a size from a READY line and before it
\* received that many body bytes.
EndedShort == Len(cdone) >= 2 /\ coutDir /\ creceived < ctotal

\* C17: when the server closes the connection after the READY <size> line
\* and before <size> body bytes were delivered, download fails with
\* PeerDisconnected, not with FileNotFound or ErrorDuringDownload.  (Stated
\* as the claim; the code violates it.)
C17_ShortBodyIsPeerDisconnected ==
    EndedShort => cdone[2].result = "PeerDisconnected"

\* The server has written the READY line and the whole body of g on the
\* client's connection (the sentinel may or may not have followed).
BodySent ==
    /\ csock.state = "open"
    /\ Len(sent[csock.id]) >=
           Len(MSG_READY_SIZE(Len(files[NameG]))) + Len(files[NameG])

\* The number of bytes download's first read (the one that takes the READY
\* line) returned.
FirstRead == crd[csock.id] - (IF coutDir THEN creceived ELSE 0)

\* download's first read returned the READY line whole and no byte of the
\* body.
LineReadWhole ==
    /\ csock.state = "open"
    /\ cpc # "wait_line"
    /\ FirstRead >= Len(MSG_READY_SIZE(Len(files[NameG])))
    /\ files[NameG] # <<>> =>
           FirstRead = Len(MSG_READY_SIZE(Len(files[NameG])))

\* C18: the download sentinel is not load-bearing for the client: when the
\* READY line was read and the body was delivered, download returns normally
\* and the output file holds the body, whether the sentinel follows at once,
\* later or never; and the output file never holds a byte that is not of the
\* body.  (Stated as the claim; the code violates it.)
C18_SentinelNotLoadBearing ==
    LineReadWhole =>
        /\ coutDir => cout[NameG] = Prefix(files[NameG], Len(cout[NameG]))
        /\ (Len(cdone) >= 2 /\ BodySent) =>
               /\ cdone[2].result = "ok"
               /\ cout[NameG] = files[NameG]

\* The same with the sentinel kept out of download's first read: holds.
C18_WithoutSentinelInFirstRead ==
    (LineReadWhole /\ FirstRead = Len(MSG_READY_SIZE(Len(files[NameG])))) =>
        /\ coutDir => cout[NameG] = Prefix(files[NameG], Len(cout[NameG]))
        /\ (Len(cdone) >= 2 /\ BodySent) =>
               /\ cdone[2].result = "ok"
               /\ cout[NameG] = files[NameG]

(***************************************************************************)
(* The stalled-upload specification: both runtimes, connection 1 starts an *)
(* upload of f and its peer then neither sends nor closes, connection 2    *)
(* sends one command.  The workers and tasks are scheduled fairly.         *)
(***************************************************************************)
NextStall ==
    \/ \E c \in Conns : PeerSend(c)
    \/ \E c \in Conns : ServerStep(c)

SpecStall ==
    /\ InitClose
    /\ [][NextStall]_vars
    /\ \A c \in Conns : WF_vars(ServerStep(c))

\* Connection c is in the middle of an upload, the server has read all its
\* peer has sent, and the peer sends no more and has not closed.
Stalled(c) ==
    /\ upload[c].state = "running"
    /\ pc[c] = "load_recv"
    /\ peerPos[c] = Len(script[c])
    /\ c2s[c] = <<>>
    /\ ~peerClosed[c]

\* The command of connection c was dispatched and answered in full.
Answered(c) ==
    /\ Len(disp[c]) = 1
    /\ disp[c][1].line = Strip(script[c])
    /\ sent[c] = ProbeResponse(script[c])
    /\ pc[c] = "loop"

\* C19: a stalled peer stalls only its own worker or task: in both runtimes,
\* while connection 1 is in the middle of an upload and its peer neither
\* sends nor closes, a command sent on connection 2 is eventually dispatched
\* and answered, and the stalled connection stays in its upload.
C19_StalledPeerStallsOnlyItself ==
    /\ (peerPos[2] = Len(script[2])) ~> Answered(2)
    /\ [](Stalled(1) => [](upload[1].state = "running" /\ pc[1] = "load_recv"))

\* Connection 1 is stalled in its upload with a part of the body stored, and
\* connection 2 has its answer.
C19_Witness ==
    /\ Stalled(1)
    /\ upload[1].recv # <<>>
    /\ Answered(2)

C19_WitnessThreaded == C19_Witness /\ mode = "threaded"

C19_WitnessAsync == C19_Witness /\ mode = "async"

\* Connection 1 has stalled in its upload before connection 2 sent anything.
C19_WitnessStalledFirst ==
    /\ Stalled(1)
    /\ peerPos[2] = 0

\* The commands a peer sends after an upload, and the response to each when
\* the upload stored the body b under f.
AfterUpload == { Line3(T_GET, T_FILE, NameF), Line1(<<"X">>) }

AfterUploadResponse(p, b) ==
    IF p = Line1(<<"X">>) THEN MSG_UNKNOWN_COMMAND
    ELSE MSG_READY_SIZE(Len(b)) \o b \o SENTINEL

\* The peer of connection 1 has sent an upload of b and then the command p,
\* the upload handler has received the payload and its sentinel from their
\* first byte on and has completed, and the worker has read all that was sent
\* and waits for more from a peer that is still there.
UploadThenCommand(b, p) ==
    /\ script[1] = UploadRequest(NameF, b) \o p
    /\ upload[1].state = "complete"
    /\ StartsWith(upload[1].recv, b \o SENTINEL)
    /\ peerPos[1] = Len(script[1])
    /\ c2s[1] = <<>>
    /\ ~peerClosed[1]
    /\ pc[1] = "loop" => buffer[1] = <<>>
    /\ pc[1] \in {"loop", "closed"}

\* C20: after a completed upload the connection is in line mode again and
\* stays open: the command line the peer sends after the sentinel is
\* dispatched and answered, however the peer's bytes are grouped into reads.
\* (Stated as the claim; the code violates it.)
C20_LineModeAfterUpload ==
    \A b \in PlainBodies : \A p \in AfterUpload :
        UploadThenCommand(b, p) =>
            /\ pc[1] = "loop"
            /\ Len(disp[1]) = 2
            /\ disp[1][2].line = Strip(p)
            /\ Reply(1, 2) = AfterUploadResponse(p, b)

\* The same when the handler's reads ended with the sentinel: holds.
C20_CommandInItsOwnRead ==
    \A b \in PlainBodies : \A p \in AfterUpload :
        (UploadThenCommand(b, p) /\ upload[1].recv = b \o SENTINEL) =>
            /\ pc[1] = "loop"
            /\ Len(disp[1]) = 2
            /\ disp[1][2].line = Strip(p)
            /\ Reply(1, 2) = AfterUploadResponse(p, b)

C20_CommandInItsOwnReadReached ==
    \E b \in PlainBodies : \E p \in AfterUpload :
        UploadThenCommand(b, p) /\ upload[1].recv = b \o SENTINEL

(***************************************************************************)
(* The line-framing specification: both runtimes, one raw peer that sends  *)
(* two command lines (GET and unknown commands, no LOAD) and possibly the  *)
(* start of a third, and may then close.                                   *)
(***************************************************************************)
FramedLines ==
    { Line3(T_GET, T_FILE, NameG), Line3(T_GET, T_FILE, NameH),
      Line3(T_GET, T_FILES, NameG), Line1(<<"X">>) }

\* An incomplete trailing line: nothing, or the bytes of a line without its
\* newline.
Trailing == { <<>>, <<"X">>, T_GET \o SP \o T_FILE \o SP \o NameG }

InitLines ==
    /\ mode \in {"threaded", "async"}
    /\ files = Files0
    /\ dirs = Dirs0
    /\ pc = [c \in Conns |-> IF c = 1 THEN "loop" ELSE "none"]
    /\ buffer = EmptyConn
    /\ c2s = EmptyConn
    /\ peerClosed = [c \in Conns |-> FALSE]
    /\ sent = EmptyConn
    /\ fname = EmptyConn
    /\ fbuf = EmptyConn
    /\ fpos = [c \in Conns |-> 0]
    /\ \E l1 \in FramedLines : \E l2 \in FramedLines : \E t \in Trailing :
          script = [c \in Conns |-> IF c = 1 THEN l1 \o l2 \o t ELSE <<>>]
    /\ peerPos = [c \in Conns |-> 0]
    /\ upload = [c \in Conns |-> NoUpload]
    /\ disp = EmptyConn
    /\ ClientIdle

NextLines ==
    \E c \in Conns :
        \/ PeerSend(c)
        \/ PeerClose(c)
        \/ HandleClientRecv(c)
        \/ HandleClientDispatch(c)
        \/ StreamReaderFeed(c)
        \/ HandleClientAsyncDispatch(c)
        \/ CmdGetFileRead(c)

SpecLines == InitLines /\ [][NextLines]_vars

\* The newline-terminated lines of the byte string s, stripped, in order.
RECURSIVE CompleteLines(_)
CompleteLines(s) ==
    IF Contains(s, NL)
    THEN <<Strip(Before(s, NL))>> \o CompleteLines(After(s, NL))
    ELSE <<>>

\* What follows the last newline of s.
RECURSIVE TrailingOf(_)
TrailingOf(s) == IF Contains(s, NL) THEN TrailingOf(After(s, NL)) ELSE s

\* The response to each line of FramedLines over the storage Files0.
FramedResponse(line) ==
    IF line = Strip(Line3(T_GET, T_FILE, NameG))
    THEN MSG_READY_SIZE(Len(Files0[NameG])) \o Files0[NameG] \o SENTINEL
    ELSE IF line = Strip(Line3(T_GET, T_FILE, NameH))
    THEN MSG_FILE_NOT_FOUND(NameH)
    ELSE IF line = Strip(Line3(T_GET, T_FILES, NameG))
    THEN NameG \o NL
    ELSE MSG_UNKNOWN_COMMAND

\* The lines dispatched so far are the first complete lines of the script, in
\* their order, and each one that was handled got its response before the
\* next was dispatched.
InOrder ==
    /\ Len(disp[1]) <= Len(CompleteLines(script[1]))
    /\ \A i \in 1..Len(disp[1]) :
          /\ disp[1][i].line = CompleteLines(script[1])[i]
          /\ (Handled(1, i) /\ ~peerClosed[1]) =>
                 Reply(1, i) = FramedResponse(disp[1][i].line)

\* The worker has read all the peer sent and waits for more.
Idle ==
    /\ peerPos[1] = Len(script[1])
    /\ c2s[1] = <<>>
    /\ pc[1] = "loop"
    /\ ~Contains(buffer[1], NL)

\* C21: line framing does not depend on read boundaries: for every sequence
\* of GET and unknown command lines and every split of the peer's bytes into
\* reads, the server dispatches the same lines in the same order, sends the
\* responses in the order of the lines, and keeps an incomplete trailing line
\* until its newline arrives.  (Stated as the claim; the code violates it.)
C21_FramingIgnoresReadBoundaries ==
    /\ InOrder
    /\ Idle => /\ Len(disp[1]) = Len(CompleteLines(script[1]))
               /\ buffer[1] = TrailingOf(script[1])

\* The same for the threaded runtime, and for the async runtime while the
\* peer has not closed: holds.
C21_WhileThePeerIsOpen ==
    (mode = "threaded" \/ ~peerClosed[1]) =>
        /\ InOrder
        /\ Idle => /\ Len(disp[1]) = Len(CompleteLines(script[1]))
                   /\ buffer[1] = TrailingOf(script[1])

\* All lines were dispatched and answered with an incomplete line kept.
C21_KeptTrailing ==
    /\ Idle
    /\ ~peerClosed[1]
    /\ Len(disp[1]) = 2
    /\ buffer[1] = <<"X">>
    /\ sent[1] = FramedResponse(disp[1][1].line) \o FramedResponse(disp[1][2].line)

\* download's first read returned the READY line of g to its newline, and
\* possibly more.
ReadyLineRead ==
    /\ csock.state = "open"
    /\ FirstRead >= Len(MSG_READY_SIZE(Len(files[NameG])))

\* download took the declared size from the READY line and what it has
\* written is the start of the body; once it has ended with the body
\* delivered, it has returned normally and the output file is the body.
ParsedAsReady ==
    /\ coutDir
    /\ ctotal = Len(files[NameG])
    /\ cout[NameG] = Prefix(files[NameG], Len(cout[NameG]))
    /\ (Len(cdone) >= 2 /\ BodySent) =>
           /\ cdone[2].result = "ok"
           /\ cout[NameG] = files[NameG]

\* C22: download takes the declared size from the first newline-terminated
\* line of the reply and treats every byte after that newline as body, for
\* every grouping of the server's bytes into reads, in particular when body
\* bytes or the sentinel arrive in the same read as the READY line.  (Stated
\* as the claim; the code violates it.)
C22_ReadyLineEndsAtItsNewline ==
    ReadyLineRead => ParsedAsReady

\* The same when the first read ends with the READY line's newline: holds.
C22_LineAloneInFirstRead ==
    (ReadyLineRead /\ FirstRead = Len(MSG_READY_SIZE(Len(files[NameG]))))
        => ParsedAsReady

C22_LineAloneReached ==
    /\ ReadyLineRead
    /\ FirstRead = Len(MSG_READY_SIZE(Len(files[NameG])))
    /\ files[NameG] # <<>>
    /\ Len(cdone) >= 2
    /\ cdone[2].result = "ok"

\* The sum of a sequence of numbers.
RECURSIVE SumSeq(_)
SumSeq(s) == IF s = <<>> THEN 0 ELSE s[1] + SumSeq(Tail(s))

C23_WitnessEmpty ==
    /\ coutDir
    /\ ctotal = 0
    /\ Len(cdone) >= 2
    /\ cdone[2].result = "ok"
    /\ pc[1] = "closed"

\* download has ended with fewer bytes than declared.
C23_WitnessShort ==
    /\ coutDir
    /\ creceived = 1
    /\ ctotal = 2
    /\ Len(cdone) >= 2
    /\ cdone[2].result = "ErrorDuringDownload"

(***************************************************************************)
(* The visibility specification: both runtimes, connection 1 starts an     *)
(* upload of f that never gets its sentinel (its peer stalls or closes),   *)
(* connection 2 asks for f by GET FILE or GET FILES.                        *)
(***************************************************************************)
Lookups == { Line3(T_GET, T_FILE, NameF), Line3(T_GET, T_FILES, NameF) }

InitVisible ==
    /\ mode \in {"threaded", "async"}
    /\ files = Files0
    /\ dirs = Dirs0
    /\ pc = [c \in Conns |-> "loop"]
    /\ buffer = EmptyConn
    /\ c2s = EmptyConn
    /\ peerClosed = [c \in Conns |-> FALSE]
    /\ sent = EmptyConn
    /\ fname = EmptyConn
    /\ fbuf = EmptyConn
    /\ fpos = [c \in Conns |-> 0]
    /\ \E b \in SeqsUpTo(BodyAlphabet, MaxBody) : \E p \in Lookups :
          script = [c \in Conns |->
                      IF c = 1 THEN Line2(T_LOAD, NameF) \o b ELSE p]
    /\ peerPos = [c \in Conns |-> 0]
    /\ upload = [c \in Conns |-> NoUpload]
    /\ disp = EmptyConn
    /\ ClientIdle

NextVisible ==
    \/ \E c \in Conns : PeerSend(c)
    \/ PeerClose(1)
    \/ \E c \in Conns : ServerStep(c)

SpecVisible == InitVisible /\ [][NextVisible]_vars

\* The response to a lookup of a name that is not in the storage.
AbsentResponse(line) ==
    IF line = Line3(T_GET, T_FILE, NameF) THEN MSG_FILE_NOT_FOUND(NameF)
    ELSE NL

\* C24: a name is present in the storage directory (visible to GET FILES and
\* GET FILE on any connection) only if it was there at server start or a
\* LOAD of that name has completed; a LOAD that is in progress or that failed
\* does not make its name visible.  (Stated as the claim; the code violates
\* it.)
C24_OnlyCompletedLoadsAreVisible ==
    /\ \A n \in ListDir :
          \/ n \in DOMAIN Files0 \cup Dirs0
          \/ \E c \in Conns : upload[c].name = n /\ upload[c].state = "complete"
    /\ (\A c \in Conns : upload[c].state # "complete") =>
          ((Len(disp[2]) = 1 /\ Handled(2, 1)) =>
               Reply(2, 1) = AbsentResponse(script[2]))

\* The lookup alone is violated too: connection 2 is told of f.
C24_LookupFindsNothing ==
    (Len(disp[2]) = 1 /\ Handled(2, 1)) =>
        Reply(2, 1) = AbsentResponse(script[2])

\* One step keeps every stored name, leaves the subdirectories alone, and
\* creates or changes a file only as the step of a LOAD of that name.
StorageStep ==
    /\ DOMAIN files \subseteq DOMAIN files'
    /\ dirs' = dirs
    /\ \A n \in DOMAIN files' :
          (n \notin DOMAIN files \/ files'[n] # files[n]) =>
              \E c \in Conns :
                  /\ pc[c] \in {"load_open", "load_recv"}
                  /\ fname[c] = n
                  /\ upload[c].name = n

\* C25: no server operation removes a stored name and only LOAD changes the
\* storage: the set of stored names only grows, and GET FILE, GET FILES and
\* unknown commands leave the names and the contents of all files unchanged.
C25_OnlyLoadChangesStorage == [][StorageStep]_vars

\* A GET FILE of g, a GET FILES or an unknown command was handled and the
\* storage is the initial one.
C25_Witness ==
    /\ files = Files0
    /\ dirs = Dirs0
    /\ \E i \in DOMAIN disp[1] :
          /\ disp[1][i].line \in { Strip(Line3(T_GET, T_FILE, NameG)),
                                   Strip(Line3(T_GET, T_FILES, T_ALL)),
                                   <<"X">> }
          /\ Handled(1, i)
          /\ Reply(1, i) # <<>>
    /\ Len(disp[1]) = 2

\* An upload has added f and a GET FILE of f was answered after it; g is as
\* it was.
C25_WitnessAfterLoad ==
    /\ DOMAIN files = {NameF, NameG}
    /\ files[NameG] = Files0[NameG]
    /\ files[NameF] # <<>>
    /\ Len(disp[1]) = 2
    /\ disp[1][2].line = Strip(Line3(T_GET, T_FILE, NameF))
    /\ Handled(1, 2)
    /\ Reply(1, 2) = MSG_READY_SIZE(Len(files[NameF])) \o files[NameF] \o SENTINEL

(***************************************************************************)
(* The sequence specification: a FileClient that connects and downloads g  *)
(* twice on the same connection.                                           *)
(***************************************************************************)
DownloadTwice(name) ==
    <<Call("connect", <<>>), Call("download", name), Call("download", name)>>

InitSequence ==
    /\ mode \in {"threaded", "async"}
    /\ files = Files0
    /\ dirs = Dirs0
    /\ pc = [c \in Conns |-> "none"]
    /\ buffer = EmptyConn
    /\ c2s = EmptyConn
    /\ peerClosed = [c \in Conns |-> FALSE]
    /\ sent = EmptyConn
    /\ fname = EmptyConn
    /\ fbuf = EmptyConn
    /\ fpos = [c \in Conns |-> 0]
    /\ script = EmptyConn
    /\ peerPos = [c \in Conns |-> 0]
    /\ upload = [c \in Conns |-> NoUpload]
    /\ disp = EmptyConn
    /\ cprog = DownloadTwice(NameG)
    /\ clocal = <<>>
    /\ cip = 1
    /\ cpc = "start"
    /\ csock = NoSocket
    /\ coutDir = FALSE
    /\ cout = <<>>
    /\ ctotal = 0
    /\ creceived = 0
    /\ creported = <<>>
    /\ coff = 0
    /\ crd = [c \in Conns |-> 0]
    /\ cdone = <<>>

NextSequence ==
    \/ ClientConnect
    \/ ClientDownloadStart
    \/ ClientDownloadRecvLine
    \/ ClientDownloadRecvBody
    \/ \E c \in Conns :
          \/ HandleClientRecv(c)
          \/ HandleClientDispatch(c)
          \/ StreamReaderFeed(c)
          \/ HandleClientAsyncDispatch(c)
          \/ CmdGetFileRead(c)

SpecSequence == InitSequence /\ [][NextSequence]_vars

\* The server's whole reply to GET FILE g.
ReplyOfG == MSG_READY_SIZE(Len(Files0[NameG])) \o Files0[NameG] \o SENTINEL

\* The second download waits for its response line.
SecondWaits ==
    /\ cip = 3
    /\ cpc = "wait_line"
    /\ csock.state = "open"

\* C26: when a client issues several operations one after another on one
\* connection, each operation reads the server's response to its own
\* command: when the second download reads its response, every byte of the
\* reply to the first has been consumed, and what there is to read is the
\* start of the reply to the second.  (Stated as the claim; the code
\* violates it.)
C26_EachOperationReadsItsOwnReply ==
    SecondWaits =>
        /\ crd[csock.id] >= Len(ReplyOfG)
        /\ ClientAvail = Prefix(ReplyOfG, Len(ClientAvail))

\* What the code does instead: the second download never returns normally.
C26_SecondDownloadNeverSucceeds ==
    Len(cdone) >= 3 => cdone[3].result = "ErrorDuringDownload"

\* The first download has returned normally with the file, and the second
\* has failed.
C26_SecondFailed ==
    /\ Len(cdone) >= 3
    /\ cdone[2].result = "ok"
    /\ cdone[3].result = "ErrorDuringDownload"
    /\ sent[1] = ReplyOfG \o ReplyOfG

\* upload(f) of a content without the sentinel has returned without error.
UploadReturned ==
    /\ cprog = RoundTrip(NameF)
    /\ ~Contains(clocal[NameF], SENTINEL)
    /\ Ended(2, {"ok"})

\* C27: completion ordering of an upload: when upload() has returned without
\* error, the server has stored the complete content, so that a GET FILE for
\* that name issued afterwards on any connection finds the file with all
\* uploaded bytes, under every scheduling of the server's workers.  (Stated
\* as the claim; the code violates it.)
C27_UploadReturnsAfterStore ==
    UploadReturned =>
        /\ IsFile(NameF)
        /\ files[NameF] = clocal[NameF]
        /\ \A i \in DOMAIN disp[2] :
              (disp[2][i].line = Strip(DownloadCommand(NameF)) /\ Handled(2, i)
               /\ ~peerClosed[2]) =>
                  Reply(2, i) = MSG_READY_SIZE(Len(clocal[NameF]))
                                  \o clocal[NameF] \o SENTINEL

\* The lookup alone: the download that follows the upload on a new
\* connection is not told that the file is absent.  Violated as well.
C27_LookupFindsTheUpload ==
    UploadReturned => ~Ended(5, {"FileNotFound"})

\* The stored file alone, once the worker of the upload's connection has
\* ended.  Violated as well (the defects of C2 and C4).
C27_StoredWhenWorkerEnded ==
    (UploadReturned /\ pc[1] = "closed") => files[NameF] = clocal[NameF]

(***************************************************************************)
(* The sharing specification: a FileClient that calls share_directory on a *)
(* directory of two files, d (a directory of the server's storage, whose   *)
(* upload fails on the server) and f, in either order of os.walk.          *)
(***************************************************************************)
\* share_directory's loop body for one file: connect, try upload, finally
\* disconnect.
ShareOne(name) ==
    <<Call("connect", <<>>), Call("share_upload", name),
      Call("share_finally", <<>>)>>

\* share_directory over a directory whose files os.walk yields as `names`.
ShareDirectory(names) == ShareOne(names[1]) \o ShareOne(names[2])

InitShare ==
    /\ mode \in {"threaded", "async"}
    /\ files = Files0
    /\ dirs = Dirs0
    /\ pc = [c \in Conns |-> "none"]
    /\ buffer = EmptyConn
    /\ c2s = EmptyConn
    /\ peerClosed = [c \in Conns |-> FALSE]
    /\ sent = EmptyConn
    /\ fname = EmptyConn
    /\ fbuf = EmptyConn
    /\ fpos = [c \in Conns |-> 0]
    /\ script = EmptyConn
    /\ peerPos = [c \in Conns |-> 0]
    /\ upload = [c \in Conns |-> NoUpload]
    /\ disp = EmptyConn
    /\ cprog \in { ShareDirectory(<<NameD, NameF>>),
                   ShareDirectory(<<NameF, NameD>>) }
    /\ clocal = [n \in LocalNames |-> <<"a">>]
    /\ cip = 1
    /\ cpc = "start"
    /\ csock = NoSocket
    /\ coutDir = FALSE
    /\ cout = <<>>
    /\ ctotal = 0
    /\ creceived = 0
    /\ creported = <<>>
    /\ coff = 0
    /\ crd = [c \in Conns |-> 0]
    /\ cdone = <<>>

NextShare ==
    \/ ClientConnect
    \/ ClientUploadStart
    \/ ClientUploadRecvReady
    \/ ClientUploadSendChunk
    \/ ClientUploadSendEnd
    \/ ClientShareFinally
    \/ \E c \in Conns :
          \/ HandleClientRecv(c)
          \/ HandleClientDispatch(c)
          \/ StreamReaderFeed(c)
          \/ HandleClientAsyncDispatch(c)
          \/ CmdLoadOpen(c)
          \/ CmdLoadRecv(c)
          \/ CmdLoadAsyncRead(c)

SpecShare == InitShare /\ [][NextShare]_vars

\* The connections whose client end is open.
OpenToClient == { c \in Conns : pc[c] # "none" /\ ~peerClosed[c] }

\* The LOAD lines dispatched on connection c.
LoadsOn(c) == { i \in DOMAIN disp[c] : StartsWith(disp[c][i].line, T_LOAD) }

\* The upload of the first file has raised.
FirstRaised ==
    /\ Len(cdone) >= 2
    /\ cdone[2].result \notin {"ok", "skipped"}

\* C28: share_directory uses one connection per file, strictly one after the
\* other: each upload runs on the connection opened just before it, which is
\* closed just after it, also when the upload raises; at most one connection
\* is open at any time; and the first upload that raises aborts the run, so
\* that no later file is sent.
C28_OneConnectionPerFile ==
    /\ Cardinality(OpenToClient) <= 1
    /\ OpenToClient \subseteq (IF csock.state = "open" THEN {csock.id} ELSE {})
    /\ (Running("connect") \/ cip > Len(cprog)) => csock.state # "open"
    /\ \A c \in Conns : Cardinality(LoadsOn(c)) <= 1
    /\ \A c \in Conns : \A d \in Conns :
          (c # d /\ upload[c].name # <<>>) => upload[d].name # upload[c].name
    /\ FirstRaised =>
          /\ Len(cdone) <= 3
          /\ Len(cdone) = 3 =>
                (cip = Len(cprog) + 1 /\ csock.state = "closed")
          /\ \A c \in Conns : upload[c].name # cprog[5].name
          /\ \A c \in Conns : ~Contains(c2s[c] \o buffer[c], cprog[5].name)

\* The upload of d on an accepted connection has raised, the connection was
\* closed in the finally clause and the run has ended without f.
C28_Witness ==
    /\ FirstRaised
    /\ upload[1].name = NameD
    /\ Len(cdone) = 3
    /\ cip = Len(cprog) + 1
    /\ csock = [id |-> 1, state |-> "closed"]
    /\ peerClosed[1]
    /\ pc[2] = "none"

\* Both files were uploaded, each on its own connection, both closed.
C28_WitnessBoth ==
    /\ Len(cdone) = 6
    /\ cdone[2].result = "ok"
    /\ cdone[5].result = "ok"
    /\ upload[1].name = cprog[2].name
    /\ upload[2].name = cprog[5].name
    /\ peerClosed[1]
    /\ peerClosed[2]
    /\ csock.state = "closed"

\* The first connection was refused: the upload has raised on the
\* unconnected socket and the run has ended.
C28_WitnessRefused ==
    /\ FirstRaised
    /\ Len(cdone) = 3
    /\ \A c \in Conns : pc[c] = "none"
    /\ csock.state = "closed"

(***************************************************************************)
(* The letter-case specification: both runtimes, one raw peer that sends   *)
(* one command line whose verb and subcommand are written in any mix of    *)
(* upper and lower case, for the name g or G, over a storage that holds    *)
(* both names, and may then close.                                         *)
(***************************************************************************)
NameUpperG == <<"G">>

CaseFiles0 == [n \in {NameG, NameUpperG} |->
                 IF n = NameG THEN <<"x", "y">> ELSE <<"z">>]

\* The lower-case letter of an upper-case letter of the verbs.
LowerChar(ch) == CHOOSE x \in DOMAIN UpperMap : UpperMap[x] = ch

\* The words that differ from w in the case of their letters only.
RECURSIVE CaseVariants(_)
CaseVariants(w) ==
    IF w = <<>> THEN {<<>>}
    ELSE { <<ch>> \o v : ch \in {w[1], LowerChar(w[1])},
                         v \in CaseVariants(Tail(w)) }

\* A word in upper case and in lower case.
BothCases(w) == {w, [i \in 1..Len(w) |-> LowerChar(w[i])]}

\* Every case variant of each verb and of each subcommand, the other word of
\* a GET line being all upper or all lower case.
CaseLines ==
    { Line2(v, n) : v \in CaseVariants(T_LOAD), n \in {NameG, NameUpperG} }
    \cup { Line3(v, w, n) : v \in CaseVariants(T_GET),
                            w \in BothCases(T_FILE) \cup BothCases(T_FILES),
                            n \in {NameG, NameUpperG} }
    \cup { Line3(v, w, n) : v \in BothCases(T_GET),
                            w \in CaseVariants(T_FILE) \cup CaseVariants(T_FILES),
                            n \in {NameG, NameUpperG} }

InitCase ==
    /\ mode \in {"threaded", "async"}
    /\ files = CaseFiles0
    /\ dirs = {}
    /\ pc = [c \in Conns |-> IF c = 1 THEN "loop" ELSE "none"]
    /\ buffer = EmptyConn
    /\ c2s = EmptyConn
    /\ peerClosed = [c \in Conns |-> FALSE]
    /\ sent = EmptyConn
    /\ fname = EmptyConn
    /\ fbuf = EmptyConn
    /\ fpos = [c \in Conns |-> 0]
    /\ \E l \in CaseLines : script = [c \in Conns |-> IF c = 1 THEN l ELSE <<>>]
    /\ peerPos = [c \in Conns |-> 0]
    /\ upload = [c \in Conns |-> NoUpload]
    /\ disp = EmptyConn
    /\ ClientIdle

NextCase ==
    \E c \in Conns :
        \/ PeerSend(c)
        \/ PeerClose(c)
        \/ HandleClientRecv(c)
        \/ HandleClientDispatch(c)
        \/ StreamReaderFeed(c)
        \/ HandleClientAsyncDispatch(c)
        \/ CmdLoadOpen(c)
        \/ CmdLoadRecv(c)
        \/ CmdLoadAsyncRead(c)
        \/ CmdGetFileRead(c)

SpecCase == InitCase /\ [][NextCase]_vars

\* The line of the script, its words, its name argument and its upper-case
\* form (the verb and the subcommand in upper case, the name as it is).
CaseLine == Strip(script[1])

CaseParts == Split(CaseLine)

CaseName == CaseParts[Len(CaseParts)]

CaseKind ==
    IF Len(CaseParts) = 2 THEN "load"
    ELSE IF Len(CaseParts[2]) = Len(T_FILE) THEN "get_file" ELSE "get_files"

CaseUpperForm ==
    IF CaseKind = "load" THEN Strip(Line2(T_LOAD, CaseName))
    ELSE IF CaseKind = "get_file" THEN Strip(Line3(T_GET, T_FILE, CaseName))
    ELSE Strip(Line3(T_GET, T_FILES, CaseName))

\* The dispatcher of the runtime that runs.
RuntimeDispatch(line) ==
    IF mode = "threaded" THEN _dispatch_command(line)
    ELSE _dispatch_command_async(line)

\* The response to the upper-case form over the storage CaseFiles0.
CaseResponse ==
    IF CaseKind = "get_file"
    THEN MSG_READY_SIZE(Len(CaseFiles0[CaseName])) \o CaseFiles0[CaseName]
             \o SENTINEL
    ELSE CaseName \o NL

\* C29: verb selection is case-insensitive and arguments are literal: in both
\* runtimes, for every case variant of the verb (LOAD, GET) and of the GET
\* subcommand (FILE, FILES), the response and the effect on storage are those
\* of the upper-case form, and the file name argument is used exactly as
\* received, with its case unchanged.
C29_VerbsIgnoreCaseNamesDoNot ==
    /\ RuntimeDispatch(CaseLine) = RuntimeDispatch(CaseUpperForm)
    /\ RuntimeDispatch(CaseLine) = Outcome(CaseKind, CaseName)
    /\ \A i \in DOMAIN disp[1] : i = 1 /\ disp[1][i].line = CaseLine
    /\ upload[1].name \in {<<>>, CaseName}
    /\ DOMAIN files = DOMAIN CaseFiles0
    /\ \A n \in DOMAIN files :
          files[n] # CaseFiles0[n] =>
              (CaseKind = "load" /\ n = CaseName /\ files[n] = <<>>)
    /\ (CaseKind = "load" /\ pc[1] = "load_recv") => files[CaseName] = <<>>
    /\ (CaseKind = "load" /\ Len(disp[1]) = 1 /\ ~peerClosed[1]) =>
           sent[1] = MSG_READY
    /\ (CaseKind # "load" /\ Len(disp[1]) = 1 /\ Handled(1, 1)
        /\ ~peerClosed[1]) => sent[1] = CaseResponse

\* A GET FILE of G written in lower case was answered with the file G.
C29_Witness ==
    /\ script[1] = Line3(<<"g", "e", "t">>, <<"f", "i", "l", "e">>, NameUpperG)
    /\ Len(disp[1]) = 1
    /\ Handled(1, 1)
    /\ sent[1] = MSG_READY_SIZE(1) \o <<"z">> \o SENTINEL

\* A LOAD of G written in mixed case has emptied G and left g.
C29_WitnessLoad ==
    /\ script[1] = Line2(<<"l", "O", "a", "D">>, NameUpperG)
    /\ pc[1] = "load_recv"
    /\ files[NameUpperG] = <<>>
    /\ files[NameG] = <<"x", "y">>

\* A GET FILES of g written in mixed case has listed g alone.
C29_WitnessFiles ==
    /\ script[1] = Line3(<<"g", "e", "t">>, <<"f", "I", "l", "E", "s">>, NameG)
    /\ Handled(1, 1)
    /\ sent[1] = NameG \o NL

====
